---- MODULE Spec2Model ----
(***************************************************************************)
(* A model of mapchete's tiled storage layer: the output metadata          *)
(* registry (mapchete/io/__init__.py) and the output drivers GeoJSON, PNG  *)
(* and PNG_hillshade (mapchete/formats/default).                           *)
(*                                                                         *)
(* Python dictionaries are functions whose domain is the set of keys that  *)
(* are present, so d.get(k, default) and "k in d" are translated as the    *)
(* code writes them.                                                       *)
(***************************************************************************)
EXTENDS Integers, Sequences, FiniteSets, TLC

VARIABLES
    supplied,   \* the output configuration as the caller supplied it
    params,     \* output_params, the dictionary write_output_metadata works on
    metadata,   \* the file <path>/metadata.json of the output location
    origin,     \* the supplied configuration whose call wrote metadata.json
    writes,     \* how many times write_json has written metadata.json
    result,     \* how the last write_output_metadata call ended
    procs,      \* the processes racing on one output location
    driver,     \* the output driver instance of the run
    files,      \* the tile files of the output location, by path
    dirs,       \* the directories of the output location
    last,       \* the last call on the driver and what it returned
    workers,    \* the workers writing process tiles concurrently
    input_tile, \* an InputTile over another process's output (geojson.py)
    request,    \* the tile request the web server answered last
    scan,       \* the last get_best_zoom_level call and its result
    PNG_DEFAULT_PROFILE \* the module-level profile dictionary of png.py

vars == <<supplied, params, metadata, origin, writes, result, procs,
          driver, files, dirs, last, workers, input_tile, request, scan,
          PNG_DEFAULT_PROFILE>>

auxVars == <<workers, input_tile, request, scan, PNG_DEFAULT_PROFILE>>

driverVars == <<driver, files, dirs, last>>

metaVars == <<supplied, params, metadata, origin, writes, result>>

(***************************************************************************)
(* Bounds of the configurations                                            *)
(***************************************************************************)
MaxMetatiling == 2

MaxPixelbuffer == 1

\* dict.get with a default
Get(d, k, default) == IF k \in DOMAIN d THEN d[k] ELSE default

(***************************************************************************)
(* The grids of tilematrix, as params_to_dump reads them                   *)
(***************************************************************************)
GridTypes == {"geodetic", "mercator"}

PyTuple(s) == [py |-> "tuple", items |-> s]

PyList(s) == [py |-> "list", items |-> s]

\* list(x) of a tuple or a list
list(x) == PyList(x.items)

GridDefinition(name) ==
    IF name = "geodetic"
    THEN [repr |-> "grid", type |-> "geodetic", shape |-> PyTuple(<<1, 2>>),
          bounds |-> PyTuple(<<-180, -90, 180, 90>>),
          left |-> -180, bottom |-> -90, right |-> 180, top |-> 90,
          is_global |-> TRUE, srid |-> 4326, crs |-> "EPSG:4326"]
    ELSE [repr |-> "grid", type |-> "mercator", shape |-> PyTuple(<<1, 1>>),
          bounds |-> PyTuple(<<-20037508, -20037508, 20037508, 20037508>>),
          left |-> -20037508, bottom |-> -20037508, right |-> 20037508,
          top |-> 20037508,
          is_global |-> TRUE, srid |-> 3857, crs |-> "EPSG:3857"]

\* the "type" of a configuration: the grid's name, or the initialised grid
TypeValues ==
    {[repr |-> "str", type |-> n] : n \in GridTypes}
        \cup {GridDefinition("geodetic")}

\* the driver's part of a configuration
DriverParams ==
    {[format |-> "PNG", bands |-> 3], [format |-> "PNG", bands |-> 4],
     [format |-> "GeoJSON"]}

OutputPath == "out"

\* the optional keys of a configuration: none, a metatiling or a pixelbuffer
OptionalParams ==
    {[k \in {} |-> 0]}
        \cup {[metatiling |-> m] : m \in 1..MaxMetatiling}
        \cup {[pixelbuffer |-> p] : p \in 0..MaxPixelbuffer}

\* the output configurations a caller can supply, with an output path
PathConfigs ==
    {o @@ d @@ [path |-> OutputPath, type |-> t] :
        o \in OptionalParams, t \in TypeValues, d \in DriverParams}

\* ... and without one
Configs ==
    PathConfigs \cup {[format |-> "GeoJSON", type |-> GridDefinition("geodetic")]}

(***************************************************************************)
(* params_to_dump, json.dump and json.loads                                *)
(***************************************************************************)
\* params.update(type=tp.grid) when the type is still a string
InitializedType(p) ==
    IF p["type"].repr = "str"
    THEN [p EXCEPT !["type"] = GridDefinition(p["type"].type)]
    ELSE p

\* params_to_dump without list(): shape and bounds stay the grid's tuples
params_to_dump_tuples(p) ==
    LET q == InitializedType(p)
        g == q["type"]
    IN  [pyramid |->
            [grid |->
                [type |-> g.type,
                 shape |-> g.shape,
                 bounds |-> g.bounds,
                 left |-> g.left, bottom |-> g.bottom,
                 right |-> g.right, top |-> g.top,
                 is_global |-> g.is_global,
                 srid |-> g.srid,
                 crs |-> g.crs],
             metatiling |-> Get(q, "metatiling", 1),
             pixelbuffer |-> Get(q, "pixelbuffer", 0)],
         driver |->
            [k \in DOMAIN q \ {"path", "type", "pixelbuffer", "metatiling"}
                |-> q[k]]]

\* the dictionary params_to_dump returns (params already updated)
params_to_dump(p) ==
    LET q == InitializedType(p)
        g == q["type"]
    IN  [pyramid |->
            [grid |->
                [type |-> g.type,
                 shape |-> list(g.shape),
                 bounds |-> list(g.bounds),
                 left |-> g.left, bottom |-> g.bottom,
                 right |-> g.right, top |-> g.top,
                 is_global |-> g.is_global,
                 srid |-> g.srid,
                 crs |-> g.crs],
             metatiling |-> Get(q, "metatiling", 1),
             pixelbuffer |-> Get(q, "pixelbuffer", 0)],
         driver |->
            [k \in DOMAIN q \ {"path", "type", "pixelbuffer", "metatiling"}
                |-> q[k]]]

\* JSON has one array type: tuples and lists are both written as arrays
JsonArray(x) == [json |-> "array", items |-> x.items]

\* json.dump(params, sort_keys=True, indent=4) of a dumped record
json_dump(d) ==
    [pyramid |->
        [d.pyramid EXCEPT
            !.grid = [d.pyramid.grid EXCEPT
                         !.shape = JsonArray(@), !.bounds = JsonArray(@)]],
     driver |-> d.driver]

\* json.loads of a document: every array comes back as a list
json_loads(doc) ==
    [pyramid |->
        [doc.pyramid EXCEPT
            !.grid = [doc.pyramid.grid EXCEPT
                         !.shape = PyList(@.items), !.bounds = PyList(@.items)]],
     driver |-> doc.driver]

(***************************************************************************)
(* The metadata file                                                       *)
(***************************************************************************)
Absent == [state |-> "absent"]

\* opened for writing and truncated, the record not yet dumped
Partial == [state |-> "partial"]

Present(doc) == [state |-> "present", doc |-> doc]

\* read_json of a local path: the parsed document, or FileNotFoundError
\* (raised for a missing file and, by the bare except, for any other failure)
read_json(file) ==
    IF file.state = "present"
    THEN [ok |-> TRUE, value |-> json_loads(file.doc)]
    ELSE [ok |-> FALSE]

\* write_json of a local path: the file holds the dumped document
write_json(dump) == Present(json_dump(dump))

\* a comparison that looks at the grid and the format only
DiffersGridOnly(existing_params, current_params) ==
    \/ existing_params.pyramid.grid # current_params.pyramid.grid
    \/ existing_params.driver["format"] # current_params.driver["format"]

\* the comparison of write_output_metadata: TRUE when the definitions differ
Differs(existing_params, current_params) ==
    \/ existing_params.pyramid # current_params.pyramid
    \/ existing_params.driver["format"] # current_params.driver["format"]

(***************************************************************************)
(* write_output_metadata, one call after another                           *)
(***************************************************************************)
\* write_output_metadata with an update path: a differing definition is
\* dumped over the existing one instead of being refused
write_output_metadata_updating(p, file) ==
    IF "path" \in DOMAIN p
    THEN LET existing == read_json(file)
             current_params == params_to_dump(p)
         IN  IF existing.ok /\ ~Differs(existing.value, current_params)
             THEN [params |-> InitializedType(p), file |-> file,
                   result |-> "ok", wrote |-> FALSE]
             ELSE [params |-> InitializedType(p),
                   file |-> write_json(current_params),
                   result |-> "written", wrote |-> TRUE]
    ELSE [params |-> p, file |-> file, result |-> "no_path", wrote |-> FALSE]

\* The whole handler on output_params p with the metadata file as it is:
\* the updated params, the file afterwards, the outcome and whether
\* write_json ran.
write_output_metadata(p, file) ==
    IF "path" \in DOMAIN p
    THEN LET existing == read_json(file)
             current_params == params_to_dump(p)
         IN  IF existing.ok
             THEN [params |-> InitializedType(p),
                   file |-> file,
                   result |-> IF Differs(existing.value, current_params)
                              THEN "MapcheteConfigError"
                              ELSE "ok",
                   wrote |-> FALSE]
             ELSE [params |-> InitializedType(p),
                   file |-> write_json(current_params),
                   result |-> "written",
                   wrote |-> TRUE]
    ELSE [params |-> p, file |-> file, result |-> "no_path", wrote |-> FALSE]

\* PNG_DEFAULT_PROFILE of png.py as the module defines it
DefaultProfile == [dtype |-> "uint8", driver |-> "PNG", count |-> 4, nodata |-> 0]

\* no output driver takes part
\* no worker, InputTile, web request or zoom scan takes part
IdleAux ==
    /\ workers = <<>>
    /\ input_tile = [state |-> "none"]
    /\ request = [state |-> "none"]
    /\ scan = [state |-> "none"]
    /\ PNG_DEFAULT_PROFILE = DefaultProfile

NoDriver ==
    /\ driver = [kind |-> "none"]
    /\ files = [x \in {} |-> 0]
    /\ dirs = {}
    /\ last = [op |-> "none"]

RaceConfigs ==
    {c \in PathConfigs : c["type"].repr = "str" /\ Get(c, "bands", 4) = 4}

Procs == {1, 2}

IdleProcs == [p \in Procs |-> [params |-> [path |-> OutputPath], pc |-> "idle"]]

InitMeta ==
    /\ supplied = [path |-> OutputPath]
    /\ params = supplied
    /\ metadata = Absent
    /\ origin = supplied
    /\ writes = 0
    /\ result = "none"
    /\ procs = IdleProcs
    /\ NoDriver
    /\ IdleAux

\* a run opens the output with its configuration c
WriteOutputMetadata ==
    \E c \in Configs :
        \E r \in {write_output_metadata(c, metadata)} :
            /\ supplied' = c
            /\ params' = r.params
            /\ metadata' = r.file
            /\ result' = r.result
            /\ writes' = IF r.wrote THEN writes + 1 ELSE writes
            /\ origin' = IF r.wrote THEN c ELSE origin
            /\ UNCHANGED <<procs, driverVars, auxVars>>

NextMeta == WriteOutputMetadata

SpecMeta == InitMeta /\ [][NextMeta]_vars

(***************************************************************************)
(* write_output_metadata, two processes on one output location             *)
(***************************************************************************)
InitRace ==
    /\ procs \in [Procs -> {[params |-> c, pc |-> "start"] : c \in RaceConfigs}]
    /\ metadata = Absent
    /\ writes = 0
    /\ supplied = [path |-> OutputPath]
    /\ params = supplied
    /\ origin = supplied
    /\ result = "none"
    /\ NoDriver
    /\ IdleAux

\* try: read_json(metadata_path), and the comparison when it returned
ReadAndCompare(p) ==
    /\ procs[p].pc = "start"
    /\ LET existing == read_json(metadata)
           current_params == params_to_dump(procs[p].params)
       IN  procs' = [procs EXCEPT ![p].pc =
                IF existing.ok
                THEN IF Differs(existing.value, current_params)
                     THEN "MapcheteConfigError"
                     ELSE "ok"
                ELSE "FileNotFoundError"]
    /\ UNCHANGED <<metaVars, driverVars, auxVars>>

\* write_json: makedirs, then open(path, 'w') truncates the file
OpenForWriting(p) ==
    /\ procs[p].pc = "FileNotFoundError"
    /\ metadata' = Partial
    /\ procs' = [procs EXCEPT ![p].pc = "opened"]
    /\ UNCHANGED <<supplied, params, origin, writes, result, driverVars, auxVars>>

\* write_json: json.dump into the open file, and the file is closed
Dump(p) ==
    /\ procs[p].pc = "opened"
    /\ metadata' = write_json(params_to_dump(procs[p].params))
    /\ writes' = writes + 1
    /\ procs' = [procs EXCEPT ![p].pc = "written"]
    /\ UNCHANGED <<supplied, params, origin, result, driverVars, auxVars>>

NextRace == \E p \in Procs : ReadAndCompare(p) \/ OpenForWriting(p) \/ Dump(p)

SpecRace == InitRace /\ [][NextRace]_vars

(***************************************************************************)
(* Tile addressing: zoom 0 of the geodetic pyramid, one pixel a base tile   *)
(***************************************************************************)
Zooms == {0}

\* rows and columns of base tiles at zoom 0: the shape of the grid
GridRows == GridDefinition("geodetic").shape.items[1]

GridCols == GridDefinition("geodetic").shape.items[2]

\* the metatilings of the process pyramid and of the output pyramid
Metatilings == {1, 2}

\* number of tile columns of a pyramid with metatiling m
TileCols(m) == (GridCols + m - 1) \div m

TileRows(m) == (GridRows + m - 1) \div m

Tiles(m) ==
    {[zoom |-> z, row |-> r, col |-> c] :
        z \in Zooms, r \in 0..(TileRows(m) - 1), c \in 0..(TileCols(m) - 1)}

\* the base columns (pixels) a tile of a pyramid with metatiling m covers
Cells(tile, m) == {c \in 0..(GridCols - 1) : c \div m = tile.col}

Min(S) == CHOOSE x \in S : \A y \in S : x <= y

Max(S) == CHOOSE x \in S : \A y \in S : x >= y

\* pyramid.intersecting(tile): the tiles of the pyramid with metatiling m
\* that intersect a tile of a pyramid with metatiling tm, in column order
intersecting(m, tile, tm) ==
    LET lo == Min(Cells(tile, tm)) \div m
        hi == Max(Cells(tile, tm)) \div m
    IN  [i \in 1..(hi - lo + 1) |-> [zoom |-> tile.zoom, row |-> tile.row, col |-> lo + i - 1]]

(***************************************************************************)
(* Storage: directories and tile files                                     *)
(***************************************************************************)
LocalPath == [scheme |-> "local", root |-> "out"]

\* path_is_remote(path): http://, https:// or s3://
path_is_remote(path) == path.scheme \in {"http", "https", "s3"}

\* str(n) of a natural number: its decimal digits
RECURSIVE str(_)
str(n) == IF n < 10 THEN <<ToString(n)>> ELSE str(n \div 10) \o <<ToString(n % 10)>>

\* a join that puts no separator between the components
RECURSIVE join_no_separator(_)
join_no_separator(parts) ==
    IF Len(parts) = 1
    THEN parts[1]
    ELSE parts[1] \o join_no_separator(Tail(parts))

\* os.path.join of components none of which starts with a separator
RECURSIVE join(_)
join(parts) ==
    IF Len(parts) = 1
    THEN parts[1]
    ELSE parts[1] \o <<"/">> \o join(Tail(parts))

\* a path is the sequence of its characters, the output path counting as one
\* os.path.join(path, str(zoom), str(row), str(col) + file_extension)
get_path(drv, tile) ==
    join(<<<<drv.path>>, str(tile.zoom), str(tile.row),
           str(tile.col) \o <<drv.file_extension>>>>)

\* the positions of the separators of a path
Separators(path) == {k \in 2..Len(path) : path[k] = "/"}

\* os.path.dirname of a tile path: what precedes the last separator
dirname(path) ==
    IF Separators(path) = {}
    THEN <<>>
    ELSE SubSeq(path, 1, (CHOOSE k \in Separators(path) :
                              \A j \in Separators(path) : j <= k) - 1)

\* makedirs(path): os.makedirs creates the directory and its parents; an
\* existing directory (OSError) is passed over; a remote path is left alone
makedirs(ds, dir) ==
    IF path_is_remote(dir[1])
    THEN ds
    ELSE ds \cup {dir} \cup {SubSeq(dir, 1, k - 1) : k \in Separators(dir)}

NoFile == [kind |-> "absent"]

\* messages of the errors rasterio and fiona raise for a missing file
NotFoundMessages == {"does not exist in the file system", "No such file or directory"}

\* messages of the other failures to open a file
FaultMessages == {"Permission denied", "not recognized as a supported file format"}

(***************************************************************************)
(* Raster payloads                                                         *)
(***************************************************************************)
\* astype("uint8")
uint8(v) == v % 256

\* an input pixel: band 1 holds v, the further bands hold w; m is the mask
PixelOptions ==
    {[v |-> 0, w |-> 0, m |-> FALSE], [v |-> 255, w |-> 255, m |-> FALSE],
     [v |-> 263, w |-> 0, m |-> FALSE], [v |-> 263, w |-> 263, m |-> TRUE]}

BandCounts == {1, 2, 3, 4, 5}

\* the arrays a process can hand to write for a tile covering cells
RasterPayloads(cells, counts) ==
    {[kind |-> "array", n |-> n, px |-> px] : n \in counts, px \in [cells -> PixelOptions]}

\* value of band b (1-based) at a pixel
Band(px, b) == IF b = 1 THEN px.v ELSE px.w

\* prepare_array(data, masked, nodata, dtype="uint8") at one pixel of one
\* band: the value cast to uint8; masked=False fills masked pixels with
\* nodata, masked=True masks the values equal to nodata
prepare_array(v, m, masked, nodata) ==
    IF masked
    THEN [v |-> uint8(v), m |-> m \/ uint8(v) = nodata]
    ELSE [v |-> IF m THEN nodata ELSE uint8(v), m |-> FALSE]

(***************************************************************************)
(* Driver instances                                                        *)
(***************************************************************************)
\* OutputData.__init__ of png.py
PNG(output_params, process_metatiling) ==
    [kind |-> "PNG",
     path |-> output_params["path"],
     file_extension |-> ".png",
     output_params |-> output_params @@ [dtype |-> "uint8"],
     nodata |-> Get(output_params, "nodata", 0),
     old_band_num |-> FALSE,
     count |-> Get(output_params, "count", 4),
     metatiling |-> Get(output_params, "metatiling", 1),
     process_metatiling |-> process_metatiling]

\* OutputData.__init__ of png_hillshade.py: the profile's count becomes 4
\* whenever the key old_band_num is present
PNG_hillshade(output_params, process_metatiling) ==
    [kind |-> "PNG_hillshade",
     path |-> output_params["path"],
     file_extension |-> ".png",
     output_params |-> output_params @@ [dtype |-> "uint8"],
     nodata |-> 255,
     old_band_num |-> Get(output_params, "old_band_num", FALSE),
     count |-> IF "old_band_num" \in DOMAIN output_params THEN 4 ELSE 2,
     metatiling |-> Get(output_params, "metatiling", 1),
     process_metatiling |-> process_metatiling]

\* OutputData.__init__ of geojson.py
GeoJSON(output_params, process_metatiling) ==
    [kind |-> "GeoJSON",
     path |-> output_params["path"],
     file_extension |-> ".geojson",
     output_params |-> output_params,
     nodata |-> 0,
     old_band_num |-> FALSE,
     count |-> 0,
     metatiling |-> Get(output_params, "metatiling", 1),
     process_metatiling |-> process_metatiling]

OutputParams ==
    {[path |-> LocalPath, metatiling |-> m] : m \in Metatilings}

HillshadeParams ==
    OutputParams \cup
        {o @@ [old_band_num |-> b] : o \in OutputParams, b \in BOOLEAN}

Drivers ==
    {PNG(o, pm) : o \in OutputParams, pm \in Metatilings}
        \cup {PNG_hillshade(o, pm) : o \in HillshadeParams, pm \in Metatilings}
        \cup {GeoJSON(o, pm) : o \in OutputParams, pm \in Metatilings}

(***************************************************************************)
(* write                                                                   *)
(***************************************************************************)
NoException == "none"

\* write_raster_window / write_vector_window: the window of the encoded
\* payload that lies in out_tile, persisted as one file; rasterio refuses
\* an array whose band count is not the profile's count
window(drv, enc, out_tile) ==
    LET out_cells == Cells(out_tile, drv.metatiling)
    IN  IF enc.kind = "vector"
        THEN [exc |-> NoException,
              file |-> [kind |-> "geojson",
                        features |-> SelectSeq(enc.features,
                                        LAMBDA f : f.cell \in out_cells)]]
        ELSE IF enc.count # drv.count
        THEN [exc |-> "ValueError", file |-> NoFile]
        ELSE [exc |-> NoException,
              file |-> [kind |-> "raster", count |-> enc.count,
                        px |-> [c \in out_cells |->
                                   IF c \in DOMAIN enc.px
                                   THEN enc.px[c]
                                   ELSE [b \in 1..enc.count |-> drv.nodata]]]]

MakedirsEvent(dir) == [e |-> "makedirs", path |-> dir]

PersistEvent(path) == [e |-> "persist", path |-> path]

\* a loop that persists the tile before its directory is prepared
RECURSIVE write_tiles_unprepared(_, _, _, _)
write_tiles_unprepared(drv, enc, tiles, st) ==
    IF tiles = <<>> \/ st.exc # NoException
    THEN st
    ELSE LET tile == Head(tiles)
             out_path == get_path(drv, tile)
             w == window(drv, enc, tile)
         IN  write_tiles_unprepared(drv, enc, Tail(tiles),
                IF w.exc # NoException
                THEN [st EXCEPT !.exc = w.exc]
                ELSE [files |-> [st.files EXCEPT ![out_path] = w.file],
                      dirs |-> makedirs(st.dirs, dirname(out_path)),
                      trace |-> st.trace \o <<PersistEvent(out_path),
                                             MakedirsEvent(dirname(out_path))>>,
                      exc |-> NoException])

\* a loop that adds the features to those an existing file holds
RECURSIVE write_tiles_appending(_, _, _, _)
write_tiles_appending(drv, enc, tiles, st) ==
    IF tiles = <<>> \/ st.exc # NoException
    THEN st
    ELSE LET tile == Head(tiles)
             out_path == get_path(drv, tile)
             prepared == makedirs(st.dirs, dirname(out_path))
             w == window(drv, enc, tile)
             old == st.files[out_path]
         IN  write_tiles_appending(drv, enc, Tail(tiles),
                IF w.exc # NoException
                THEN [st EXCEPT
                        !.dirs = prepared,
                        !.trace = @ \o <<MakedirsEvent(dirname(out_path))>>,
                        !.exc = w.exc]
                ELSE [files |-> [st.files EXCEPT ![out_path] =
                                    IF old.kind = "geojson"
                                    THEN [w.file EXCEPT !.features = old.features \o @]
                                    ELSE w.file],
                      dirs |-> prepared,
                      trace |-> st.trace \o <<MakedirsEvent(dirname(out_path)),
                                             PersistEvent(out_path)>>,
                      exc |-> NoException])

\* for tile in self.pyramid.intersecting(process_tile): get_path,
\* prepare_path, then the window is written
RECURSIVE write_tiles(_, _, _, _)
write_tiles(drv, enc, tiles, st) ==
    IF tiles = <<>> \/ st.exc # NoException
    THEN st
    ELSE LET tile == Head(tiles)
             out_path == get_path(drv, tile)
             prepared == makedirs(st.dirs, dirname(out_path))
             w == window(drv, enc, tile)
         IN  write_tiles(drv, enc, Tail(tiles),
                IF w.exc # NoException
                THEN [st EXCEPT
                        !.dirs = prepared,
                        !.trace = @ \o <<MakedirsEvent(dirname(out_path))>>,
                        !.exc = w.exc]
                ELSE [files |-> [st.files EXCEPT ![out_path] = w.file],
                      dirs |-> prepared,
                      trace |-> st.trace \o <<MakedirsEvent(dirname(out_path)),
                                             PersistEvent(out_path)>>,
                      exc |-> NoException])

\* the storage as a write finds it
Before(fs, ds) == [files |-> fs, dirs |-> ds, trace |-> <<>>, exc |-> NoException]

\* a composition whose alpha compares band 1 with 0, not with self.nodata
rgba_nodata_zero(drv, n, px) ==
    LET d(b) == prepare_array(Band(px, b), px.m, TRUE, 0).v
        alpha == IF d(1) = 0 THEN 0 ELSE 255
    IN  CASE n = 1 -> <<d(1), d(1), d(1), alpha>>
          [] n = 2 -> <<d(1), d(1), d(1), d(2)>>
          [] n = 3 -> <<d(1), d(2), d(3), alpha>>
          [] OTHER -> <<d(1), d(2), d(3), d(4)>>

\* _prepare_array_for_png at one pixel: the four bands, for 1 to 4 input bands
rgba(drv, n, px) ==
    LET d(b) == prepare_array(Band(px, b), px.m, TRUE, 0).v
        alpha == IF d(1) = drv.nodata THEN 0 ELSE 255
    IN  CASE n = 1 -> <<d(1), d(1), d(1), alpha>>
          [] n = 2 -> <<d(1), d(1), d(1), d(2)>>
          [] n = 3 -> <<d(1), d(2), d(3), alpha>>
          [] OTHER -> <<d(1), d(2), d(3), d(4)>>

\* _prepare_array_for_png: any other number of bands is a TypeError
_prepare_array_for_png(drv, data) ==
    IF data.n \in 1..4
    THEN [exc |-> NoException,
          enc |-> [kind |-> "raster", count |-> 4,
                   px |-> [c \in DOMAIN data.px |-> rgba(drv, data.n, data.px[c])]]]
    ELSE [exc |-> "TypeError"]

\* ma.masked_where(rgba == self.nodata, rgba).mask.all()
AllMasked(enc, nodata) ==
    \A c \in DOMAIN enc.px : \A b \in 1..enc.count : enc.px[c][b] = nodata

\* width, height, affine and crs of a tile, as profile stores them
TileKeys(drv, tile) ==
    [width |-> Cardinality(Cells(tile, drv.metatiling)),
     height |-> GridRows,
     affine |-> <<tile.zoom, tile.row, tile.col>>,
     crs |-> "geodetic"]

\* OutputData.profile of png.py, opt being <<>> for tile=None and <<tile>>
\* otherwise. dst_metadata is the module-level dictionary itself, here
\* shared: what is returned is also what the dictionary holds afterwards.
png_profile(shared, drv, opt) ==
    LET popped == [k \in DOMAIN shared \ {"transform"} |-> shared[k]]
        tiled == IF opt = <<>> THEN popped ELSE TileKeys(drv, opt[1]) @@ popped
    IN  IF "count" \in DOMAIN drv.output_params
        THEN [count |-> drv.output_params["count"]] @@ tiled
        ELSE tiled

\* the instance with the band count its profile has at this moment
Profiled(drv) ==
    [drv EXCEPT !.count = png_profile(PNG_DEFAULT_PROFILE, drv, <<>>)["count"]]

\* OutputData.write of png.py
png_write(drv, process_tile, data, fs, ds) ==
    LET prepared == _prepare_array_for_png(drv, data)
    IN  IF prepared.exc # NoException
        THEN [Before(fs, ds) EXCEPT !.exc = prepared.exc]
        ELSE IF AllMasked(prepared.enc, drv.nodata)
        THEN Before(fs, ds)
        ELSE write_tiles(Profiled(drv), prepared.enc,
                intersecting(drv.metatiling, process_tile, drv.process_metatiling),
                Before(fs, ds))

\* _prepare_array of png_hillshade.py at one pixel: the inverted value in
\* the last band behind bands of zeros, masked where a band holds 255
_prepare_array(drv, data) ==
    LET inverted(px) == prepare_array(255 - px.v, px.m, FALSE, 0).v
        stacked(px) == IF drv.old_band_num
                       THEN <<0, 0, 0, inverted(px)>>
                       ELSE <<0, inverted(px)>>
    IN  [kind |-> "raster",
         count |-> IF drv.old_band_num THEN 4 ELSE 2,
         px |-> [c \in DOMAIN data.px |->
                    [b \in DOMAIN stacked(data.px[c]) |->
                        prepare_array(stacked(data.px[c])[b], FALSE, TRUE, 255).v]]]

\* OutputData.write of png_hillshade.py
hillshade_write(drv, process_tile, data, fs, ds) ==
    LET enc == _prepare_array(drv, data)
    IN  IF AllMasked(enc, 255)
        THEN Before(fs, ds)
        ELSE write_tiles(drv, enc,
                intersecting(drv.metatiling, process_tile, drv.process_metatiling),
                Before(fs, ds))

\* OutputData.write of geojson.py with the early return left out
geojson_write_always(drv, process_tile, data, fs, ds) ==
    IF data.kind = "generator"
    THEN [Before(fs, ds) EXCEPT !.exc = "TypeError"]
    ELSE write_tiles(drv,
            [kind |-> "vector",
             features |-> IF data.kind = "None" THEN <<>> ELSE data.items],
            intersecting(drv.metatiling, process_tile, drv.process_metatiling),
            Before(fs, ds))

\* OutputData.write of geojson.py: len(data) is a TypeError for a generator
geojson_write(drv, process_tile, data, fs, ds) ==
    IF data.kind = "None"
    THEN Before(fs, ds)
    ELSE IF data.kind = "generator"
    THEN [Before(fs, ds) EXCEPT !.exc = "TypeError"]
    ELSE IF Len(data.items) = 0
    THEN Before(fs, ds)
    ELSE write_tiles(drv, [kind |-> "vector", features |-> data.items],
            intersecting(drv.metatiling, process_tile, drv.process_metatiling),
            Before(fs, ds))

\* the write of the driver's kind
write(drv, process_tile, data, fs, ds) ==
    CASE drv.kind = "PNG" -> png_write(drv, process_tile, data, fs, ds)
      [] drv.kind = "PNG_hillshade" -> hillshade_write(drv, process_tile, data, fs, ds)
      [] OTHER -> geojson_write(drv, process_tile, data, fs, ds)

(***************************************************************************)
(* read and empty                                                          *)
(***************************************************************************)
\* OutputData.empty of png.py: zeros in "bands" bands, or as many as the
\* module-level profile counts (4 as defined), with a mask of
\* zeros, which masks nothing
png_empty(drv, tile) ==
    [kind |-> "array",
     count |-> Get(drv.output_params, "bands", PNG_DEFAULT_PROFILE["count"]),
     px |-> [c \in Cells(tile, drv.metatiling) |->
                [b \in 1..Get(drv.output_params, "bands", PNG_DEFAULT_PROFILE["count"])
                    |-> 0]],
     mask |-> [c \in Cells(tile, drv.metatiling) |->
                [b \in 1..Get(drv.output_params, "bands", PNG_DEFAULT_PROFILE["count"])
                    |-> FALSE]]]

\* OutputData.empty of png_hillshade.py: ma.masked_values(np.zeros(shape), 0)
hillshade_empty(drv, tile) ==
    [kind |-> "band",
     px |-> [c \in Cells(tile, drv.metatiling) |-> 0],
     mask |-> [c \in Cells(tile, drv.metatiling) |-> TRUE]]

\* OutputData.empty of geojson.py
geojson_empty == [kind |-> "list", items |-> <<>>]

empty(drv, tile) ==
    CASE drv.kind = "PNG" -> png_empty(drv, tile)
      [] drv.kind = "PNG_hillshade" -> hillshade_empty(drv, tile)
      [] OTHER -> geojson_empty

\* what opening the file for reading gives: "none" when it opens, else the
\* message of the error raised
OpenErrors(file) ==
    IF file.kind = "absent" THEN NotFoundMessages ELSE {NoException} \cup FaultMessages

\* a decode that reads band 2 of a hillshade file whatever the layout
decode_band_2(drv, file) ==
    CASE drv.kind = "PNG" ->
            [exc |-> NoException,
             value |-> [kind |-> "array", count |-> file.count, px |-> file.px]]
      [] drv.kind = "PNG_hillshade" ->
            [exc |-> NoException,
             value |-> [kind |-> "band",
                        px |-> [c \in DOMAIN file.px |-> file.px[c][2]],
                        mask |-> [c \in DOMAIN file.px |-> file.px[c][2] = 0]]]
      [] OTHER ->
            [exc |-> NoException,
             value |-> [kind |-> "list", items |-> file.features]]

\* the value the driver decodes from an opened file
decode(drv, file) ==
    CASE drv.kind = "PNG" ->
            [exc |-> NoException,
             value |-> [kind |-> "array", count |-> file.count, px |-> file.px]]
      [] drv.kind = "PNG_hillshade" ->
            LET index == IF drv.old_band_num THEN 4 ELSE 2
            IN  IF index > file.count
                THEN [exc |-> "IndexError", value |-> [kind |-> "none"]]
                ELSE [exc |-> NoException,
                      value |-> [kind |-> "band",
                                 px |-> [c \in DOMAIN file.px |-> file.px[c][index]],
                                 mask |-> [c \in DOMAIN file.px |-> file.px[c][index] = 0]]]
      [] OTHER ->
            [exc |-> NoException,
             value |-> [kind |-> "list", items |-> file.features]]

\* a read that takes every error of the open for a missing file
read_any_error_is_empty(drv, output_tile, fs, err) ==
    LET file == fs[get_path(drv, output_tile)]
    IN  IF err = NoException
        THEN decode(drv, file)
        ELSE [exc |-> NoException, value |-> empty(drv, output_tile)]

\* a read that knows one of the two messages only
read_one_message(drv, output_tile, fs, err) ==
    LET file == fs[get_path(drv, output_tile)]
    IN  IF err = NoException
        THEN decode(drv, file)
        ELSE IF err = "No such file or directory"
        THEN [exc |-> NoException, value |-> empty(drv, output_tile)]
        ELSE [exc |-> err, value |-> [kind |-> "none"]]

\* OutputData.read: the decoded file; on an error whose text holds one of
\* the two not-found messages, empty(output_tile); any other error again
read(drv, output_tile, fs, err) ==
    LET file == fs[get_path(drv, output_tile)]
    IN  IF err = NoException
        THEN decode(drv, file)
        ELSE IF \E i \in {"does not exist in the file system",
                          "No such file or directory"} : i = err
        THEN [exc |-> NoException, value |-> empty(drv, output_tile)]
        ELSE [exc |-> err, value |-> [kind |-> "none"]]

(***************************************************************************)
(* A run of one output driver                                              *)
(***************************************************************************)
\* the features a process can return for a tile covering cells
Features(cells) == {[id |-> i, cell |-> c] : i \in {"a", "b"}, c \in cells}

FeatureLists(cells) ==
    {<<>>}
        \cup {<<f>> : f \in Features(cells)}
        \cup {l \in Features(cells) \X Features(cells) : l[1].id # l[2].id}

VectorPayloads(cells) ==
    {[kind |-> "None"]}
        \cup {[kind |-> "list", items |-> l] : l \in FeatureLists(cells)}
        \cup {[kind |-> "generator", items |-> l] :
                 l \in {l \in FeatureLists(cells) : Len(l) <= 1}}

\* the payloads a process can hand to the driver's write for a tile
Payloads(drv, process_tile) ==
    LET cells == Cells(process_tile, drv.process_metatiling)
    IN  CASE drv.kind = "PNG" -> RasterPayloads(cells, BandCounts)
          [] drv.kind = "PNG_hillshade" -> RasterPayloads(cells, {1})
          [] OTHER -> VectorPayloads(cells)

OutputPaths(drv) == {get_path(drv, t) : t \in Tiles(drv.metatiling)}

\* write_output_metadata takes no part
IdleMeta ==
    /\ supplied = [path |-> OutputPath]
    /\ params = supplied
    /\ metadata = Absent
    /\ origin = supplied
    /\ writes = 0
    /\ result = "none"
    /\ procs = IdleProcs

InitDriver ==
    /\ driver \in Drivers
    /\ files = [p \in OutputPaths(driver) |-> NoFile]
    /\ dirs = {}
    /\ last = [op |-> "none"]
    /\ IdleMeta
    /\ IdleAux

\* the process hands the data of a process tile to the driver
Write ==
    \E process_tile \in Tiles(driver.process_metatiling) :
        \E data \in Payloads(driver, process_tile) :
            \E r \in {write(driver, process_tile, data, files, dirs)} :
                /\ files' = r.files
                /\ dirs' = r.dirs
                /\ last' = [op |-> "write", tile |-> process_tile, data |-> data,
                            exc |-> r.exc, trace |-> r.trace,
                            again |-> /\ last.op = "write"
                                      /\ last.tile = process_tile
                                      /\ last.data = data]
                /\ UNCHANGED <<driver, metaVars, procs, auxVars>>

\* an output tile is read back
Read ==
    \E output_tile \in Tiles(driver.metatiling) :
        \E err \in OpenErrors(files[get_path(driver, output_tile)]) :
            \E r \in {read(driver, output_tile, files, err)} :
                /\ last' = [op |-> "read", tile |-> output_tile, err |-> err,
                            exc |-> r.exc, value |-> r.value]
                /\ UNCHANGED <<driver, files, dirs, metaVars, procs, auxVars>>

NextDriver == Write \/ Read

SpecDriver == InitDriver /\ [][NextDriver]_vars

(***************************************************************************)
(* Claims on the output metadata registry                                  *)
(***************************************************************************)
Called == result \in {"ok", "written", "MapcheteConfigError"}

Established == metadata.state = "present"

PersistedRecord == json_loads(metadata.doc)

\* C1 as stated: a call whose record differs in any field from the
\* established record fails with MapcheteConfigError.
C1_AnyDifferenceFails ==
    (Called /\ Established /\ PersistedRecord # params_to_dump(params))
        => result = "MapcheteConfigError"

\* C1 amended: a call whose record differs from the established record in
\* the pyramid (grid, metatiling or pixelbuffer) or in the driver's format
\* name fails with MapcheteConfigError.
C1_PyramidOrFormatDifferenceFails ==
    LET R1 == PersistedRecord
        R2 == params_to_dump(params)
    IN  (Called /\ Established /\
            (\/ R1.pyramid.grid # R2.pyramid.grid
             \/ R1.pyramid.metatiling # R2.pyramid.metatiling
             \/ R1.pyramid.pixelbuffer # R2.pyramid.pixelbuffer
             \/ R1.driver["format"] # R2.driver["format"]))
        => result = "MapcheteConfigError"

C1_Witness ==
    /\ result = "MapcheteConfigError"
    /\ Established
    /\ PersistedRecord.pyramid.metatiling # params_to_dump(params).pyramid.metatiling
    /\ writes = 1

\* C2: once a configuration has established metadata.json, a further call
\* with the same configuration ends without error and writes nothing.
\* (supplied' is the configuration of the call the step makes.)
C2_SameConfigurationSucceedsSilently ==
    [][(Established /\ supplied' = origin)
        => (result' = "ok" /\ metadata' = metadata /\ writes' = writes)]_vars

C2_Witness ==
    result = "ok" /\ Established /\ origin = supplied /\ writes = 1

\* C3: an established record is never changed or replaced by a call, the
\* location never becomes absent again, and the file is written at most once.
C3_EstablishedRecordIsNeverReplaced ==
    [][/\ Established => (metadata' = metadata /\ writes' = writes)
       /\ writes' <= 1]_vars

C3_Witness ==
    /\ Established
    /\ result = "MapcheteConfigError"
    /\ PersistedRecord = params_to_dump(origin)
    /\ PersistedRecord # params_to_dump(params)

Returned(p) == procs[p].pc \in {"ok", "written"}

\* C4 as stated: when both racing processes have returned without error, the
\* persisted record is the record each of them computed.
C4_RacersAgreeOrOneFails ==
    (\A p \in Procs : Returned(p))
        => \A p \in Procs :
               /\ Established
               /\ PersistedRecord = params_to_dump(procs[p].params)

(***************************************************************************)
(* Claims on the output drivers                                            *)
(***************************************************************************)
FileOf(tile) == files[get_path(driver, tile)]

\* C5: read of an output tile whose file is absent returns the driver's
\* empty(tile) and raises nothing.
C5_AbsentTileReadsEmpty ==
    (last.op = "read" /\ FileOf(last.tile).kind = "absent")
        => (last.exc = NoException /\ last.value = empty(driver, last.tile))

C5_Witness ==
    /\ last.op = "read"
    /\ FileOf(last.tile).kind = "absent"
    /\ last.err = "does not exist in the file system"
    /\ last.exc = NoException
    /\ last.value = empty(driver, last.tile)
    /\ \E t \in Tiles(driver.metatiling) : FileOf(t).kind # "absent"

\* C6: when opening the file of an output tile fails for a reason other than
\* its absence, read raises that failure and returns no empty(tile).
C6_OtherFailuresPropagate ==
    (last.op = "read" /\ last.err \in FaultMessages)
        => (last.exc = last.err /\ last.value.kind = "none")

C6_Witness ==
    /\ last.op = "read"
    /\ FileOf(last.tile).kind # "absent"
    /\ last.err = "Permission denied"
    /\ last.exc = "Permission denied"

\* the data is stored: the write returned, and wrote at least one file
Stored == last.op = "write" /\ last.exc = NoException /\ last.trace # <<>>

SamePyramid == driver.metatiling = driver.process_metatiling

\* read(t) in the state reached, the file opening without error
ReadBack == read(driver, last.tile, files, NoException)

Quantized(px, b) == uint8(Band(px, b))

\* C7 as stated: after write(t, d), read(t) returns d, band for band and
\* value for value, up to the quantization to uint8 (masked pixels aside).
C7_ReadReturnsWhatWasWritten ==
    (Stored /\ SamePyramid) =>
        /\ ReadBack.exc = NoException
        /\ CASE driver.kind = "PNG" ->
                    /\ ReadBack.value.count = last.data.n
                    /\ \A c \in DOMAIN last.data.px :
                          \/ last.data.px[c].m
                          \/ \A b \in 1..last.data.n :
                                /\ b \in DOMAIN ReadBack.value.px[c]
                                /\ ReadBack.value.px[c][b] = Quantized(last.data.px[c], b)
             [] driver.kind = "PNG_hillshade" ->
                    \A c \in DOMAIN last.data.px :
                          \/ last.data.px[c].m
                          \/ ReadBack.value.px[c] = Quantized(last.data.px[c], 1)
             [] OTHER -> ReadBack.value.items = last.data.items

\* the four bands the PNG driver stores for a pixel of an n-band input
ExpectedRGBA(n, px, nodata) ==
    LET q(b) == Quantized(px, b)
        alpha == IF q(1) = nodata THEN 0 ELSE 255
    IN  IF n = 1 THEN <<q(1), q(1), q(1), alpha>>
        ELSE IF n = 2 THEN <<q(1), q(1), q(1), q(2)>>
        ELSE IF n = 3 THEN <<q(1), q(2), q(3), alpha>>
        ELSE <<q(1), q(2), q(3), q(4)>>

\* C7 amended: after a write(t, d) that stored d, read(t) returns the
\* driver's encoding of d: PNG the four RGBA bands composed from d and
\* quantized to uint8, PNG_hillshade the single band 255 - d (0 at masked
\* pixels) masked where it is 0, GeoJSON the features of d.
C7_ReadReturnsTheEncodingOfWhatWasWritten ==
    (Stored /\ SamePyramid) =>
        /\ ReadBack.exc = NoException
        /\ CASE driver.kind = "PNG" ->
                    /\ ReadBack.value.count = 4
                    /\ \A c \in DOMAIN last.data.px :
                          ReadBack.value.px[c] =
                              ExpectedRGBA(last.data.n, last.data.px[c], driver.nodata)
             [] driver.kind = "PNG_hillshade" ->
                    \A c \in DOMAIN last.data.px :
                        LET x == IF last.data.px[c].m
                                 THEN 0
                                 ELSE uint8(255 - last.data.px[c].v)
                        IN  /\ ReadBack.value.px[c] = x
                            /\ ReadBack.value.mask[c] = (x = 0)
             [] OTHER -> ReadBack.value.items = last.data.items

C7_Witness ==
    /\ Stored
    /\ SamePyramid
    /\ driver.kind = "PNG_hillshade"
    /\ driver.old_band_num
    /\ \E c \in DOMAIN last.data.px :
          /\ last.data.px[c].v = 263
          /\ ~last.data.px[c].m
          /\ ReadBack.value.px[c] = 248

\* C8: a write(t, d) that follows a write(t, d) changes no file and no
\* directory, and ends as the first one did.
C8_WriteTwiceIsWriteOnce ==
    [][(last'.op = "write" /\ last'.again)
        => (files' = files /\ dirs' = dirs /\ last'.exc = last.exc)]_vars

C8_Witness ==
    /\ Stored
    /\ last.again
    /\ Len(last.trace) = 4

\* the payload holds data: a feature, or a pixel that is neither masked nor
\* the driver's nodata value
NonEmpty(drv, data) ==
    IF drv.kind = "GeoJSON"
    THEN data.kind = "list" /\ Len(data.items) > 0
    ELSE \E c \in DOMAIN data.px : ~data.px[c].m /\ uint8(data.px[c].v) # drv.nodata

Positions(trace, event) == {i \in DOMAIN trace : trace[i] = event}

\* C9: a write of a non-empty payload that returns has, for every output
\* tile of pyramid.intersecting(process_tile), prepared the directory of the
\* tile's path, then persisted the tile at get_path(tile), once.
C9_EveryIntersectingTileIsPreparedThenPersisted ==
    (last.op = "write" /\ last.exc = NoException /\ NonEmpty(driver, last.data)) =>
        LET tiles == intersecting(driver.metatiling, last.tile, driver.process_metatiling)
        IN  /\ \A i \in DOMAIN tiles :
                LET out_path == get_path(driver, tiles[i])
                    persisted == Positions(last.trace, PersistEvent(out_path))
                IN  /\ Cardinality(persisted) = 1
                    /\ \A k \in persisted :
                          \E j \in Positions(last.trace, MakedirsEvent(dirname(out_path))) :
                              j < k
                    /\ files[out_path].kind # "absent"
                    /\ dirname(out_path) \in dirs
            /\ \A k \in DOMAIN last.trace :
                  last.trace[k].e = "persist" =>
                      \E i \in DOMAIN tiles : last.trace[k].path = get_path(driver, tiles[i])

C9_Witness ==
    /\ last.op = "write"
    /\ last.exc = NoException
    /\ NonEmpty(driver, last.data)
    /\ Len(intersecting(driver.metatiling, last.tile, driver.process_metatiling)) = 2
    /\ Len(last.trace) = 4

EmptyFeatures(data) ==
    \/ data.kind = "None"
    \/ data.kind = "list" /\ Len(data.items) = 0

\* C10: the GeoJSON driver's write of None or of an empty feature sequence
\* creates no directory and writes no file, and a read of an output tile
\* without a file returns [] afterwards.
C10_EmptyFeaturesWriteNothing ==
    [][(driver.kind = "GeoJSON" /\ last'.op = "write" /\ EmptyFeatures(last'.data))
        => /\ files' = files
           /\ dirs' = dirs
           /\ last'.exc = NoException
           /\ \A t \in Tiles(driver.metatiling) :
                 files[get_path(driver, t)].kind = "absent" =>
                     \A err \in NotFoundMessages :
                         read(driver, t, files', err) =
                             [exc |-> NoException, value |-> [kind |-> "list", items |-> <<>>]]
       ]_vars

C10_Witness ==
    /\ driver.kind = "GeoJSON"
    /\ last.op = "write"
    /\ last.data.kind = "list"
    /\ Len(last.data.items) = 0
    /\ dirs = {}
    /\ \A t \in Tiles(driver.metatiling) : FileOf(t).kind = "absent"

(***************************************************************************)
(* PNG band composition on its own                                         *)
(***************************************************************************)
\* band values of an input array: nodata values, a value in between and one
\* beyond the range of uint8
ComposeValues == {0, 1, 255, 256}

ComposePixels ==
    {[v |-> a, w |-> b, m |-> FALSE] : a \in ComposeValues, b \in ComposeValues}
        \cup {[v |-> 1, w |-> 1, m |-> TRUE]}

ComposeBandCounts == {0, 1, 2, 3, 4, 5}

ComposeCells == {0, 1}

ComposePayloads ==
    {[kind |-> "array", n |-> n, px |-> px] :
        n \in ComposeBandCounts, px \in [ComposeCells -> ComposePixels]}

\* PNG drivers without and with a nodata value in their output parameters
ComposeDrivers ==
    {PNG([path |-> LocalPath], 1)}
        \cup {PNG([path |-> LocalPath, nodata |-> v], 1) : v \in {0, 255}}

InitCompose ==
    /\ driver \in ComposeDrivers
    /\ files = <<>>
    /\ dirs = {}
    /\ last = [op |-> "none"]
    /\ IdleMeta
    /\ IdleAux

\* rgba = self._prepare_array_for_png(data), one call on one input
Compose ==
    \E data \in ComposePayloads :
        /\ last.op = "none"
        /\ last' = [op |-> "_prepare_array_for_png", data |-> data,
                    out |-> _prepare_array_for_png(driver, data)]
        /\ UNCHANGED <<driver, files, dirs, metaVars, procs, auxVars>>

NextCompose == Compose

SpecCompose == InitCompose /\ [][NextCompose]_vars

Composed == last.op = "_prepare_array_for_png"

\* the composition rule of the four bands, over band values val(px, b)
ComposedAs(val(_, _)) ==
    LET n == last.data.n
        alpha(px) == IF val(px, 1) = driver.nodata THEN 0 ELSE 255
    IN  IF n \in 1..4
        THEN /\ last.out.exc = NoException
             /\ last.out.enc.count = 4
             /\ \A c \in DOMAIN last.data.px :
                    LET px == last.data.px[c]
                    IN  last.out.enc.px[c] =
                            CASE n = 1 -> <<val(px, 1), val(px, 1), val(px, 1), alpha(px)>>
                              [] n = 2 -> <<val(px, 1), val(px, 1), val(px, 1), val(px, 2)>>
                              [] n = 3 -> <<val(px, 1), val(px, 2), val(px, 3), alpha(px)>>
                              [] OTHER -> <<val(px, 1), val(px, 2), val(px, 3), val(px, 4)>>
        ELSE /\ last.out.exc = "TypeError"
             /\ "enc" \notin DOMAIN last.out

TileIndices == {1, 11}

TileIds == [zoom : TileIndices, row : TileIndices, col : TileIndices]

\* C12: get_path(tile) is <path>/<zoom>/<row>/<col><file_extension>, built
\* from the driver's path and extension and the tile's zoom, row and col
\* only, and two tiles that differ in zoom, row or col get different paths;
\* so the tile files of the output location are one per tile.
C12_OnePathPerTile ==
    /\ \A t \in TileIds :
          get_path(driver, t) =
              <<driver.path, "/">> \o str(t.zoom) \o <<"/">> \o str(t.row)
                  \o <<"/">> \o str(t.col) \o <<driver.file_extension>>
    /\ \A t1, t2 \in TileIds :
          get_path(driver, t1) = get_path(driver, t2) => t1 = t2
    /\ \A p \in DOMAIN files :
          files[p].kind # "absent" =>
              Cardinality({t \in Tiles(driver.metatiling) : get_path(driver, t) = p}) = 1

C12_Witness ==
    /\ driver.metatiling = 1
    /\ \A t \in Tiles(1) : FileOf(t).kind # "absent"
    /\ Cardinality({p \in DOMAIN files : files[p].kind # "absent"}) = Cardinality(Tiles(1))
    /\ get_path(driver, [zoom |-> 1, row |-> 11, col |-> 1])
          # get_path(driver, [zoom |-> 1, row |-> 1, col |-> 11])

(***************************************************************************)
(* Workers writing the process tiles of one run concurrently               *)
(***************************************************************************)
Workers == {1, 2}

\* the ways to hand each process tile to one worker
Assignments(drv) == [Tiles(drv.process_metatiling) -> Workers]

InitWorkers ==
    /\ driver \in Drivers
    /\ files = [p \in OutputPaths(driver) |-> NoFile]
    /\ dirs = {}
    /\ last = [op |-> "none"]
    /\ \E a \in Assignments(driver) :
          workers = [w \in Workers |->
                        [todo |-> {t \in Tiles(driver.process_metatiling) : a[t] = w},
                         wrote |-> {}]]
    /\ input_tile = [state |-> "none"]
    /\ request = [state |-> "none"]
    /\ scan = [state |-> "none"]
    /\ PNG_DEFAULT_PROFILE = DefaultProfile
    /\ IdleMeta

\* the paths a write persisted
Persisted(trace) == {trace[k].path : k \in {j \in DOMAIN trace : trace[j].e = "persist"}}

\* worker w calls write for one of its process tiles; the workers share the
\* storage and nothing else
WorkerWrite(w) ==
    \E process_tile \in workers[w].todo :
        \E data \in Payloads(driver, process_tile) :
            \E r \in {write(driver, process_tile, data, files, dirs)} :
                /\ files' = r.files
                /\ dirs' = r.dirs
                /\ workers' = [workers EXCEPT
                                 ![w].todo = @ \ {process_tile},
                                 ![w].wrote = @ \cup Persisted(r.trace)]
                /\ last' = [op |-> "write", tile |-> process_tile, data |-> data,
                            exc |-> r.exc, trace |-> r.trace, again |-> FALSE]
                /\ UNCHANGED <<driver, metaVars, procs, input_tile, request, scan,
                             PNG_DEFAULT_PROFILE>>

NextWorkers == \E w \in Workers : WorkerWrite(w)

SpecWorkers == InitWorkers /\ [][NextWorkers]_vars

\* C13: workers with disjoint sets of process tiles never write to the same
\* file path, whatever the metatiling of the process and output pyramids.
C13_WorkersWriteDisjointPaths ==
    \A v, w \in Workers : v # w => workers[v].wrote \cap workers[w].wrote = {}

(***************************************************************************)
(* InputTile of geojson.py: the output of another process as input         *)
(***************************************************************************)
\* how often get_raw_output may be invoked for one flag in one scope
MaxInvocations == 3

\* what self.process.get_raw_output(self.tile) can give: a list of features,
\* or an exception of the wrapped process
RawOutputs == {<<>>, <<"a">>, <<"a", "b">>}

RawOutcomes ==
    {[exc |-> NoException, value |-> o] : o \in RawOutputs}
        \cup {[exc |-> "ProcessError", value |-> <<>>]}

NoCache == [k \in {} |-> <<>>]

NoInvocations == [k \in BOOLEAN |-> [returned |-> 0, raised |-> 0]]

Invocations(self, k) == self.invocations[k].returned + self.invocations[k].raised

\* a _from_cache that asks the wrapped process on every call
_from_cache_uncached(self, validity_check, raw) ==
    IF raw.exc # NoException
    THEN [self |-> [self EXCEPT !.invocations[validity_check].raised = @ + 1],
          exc |-> raw.exc, value |-> <<>>, invoked |-> TRUE]
    ELSE [self |-> [self EXCEPT
                      !.cache = [k \in DOMAIN self.cache \cup {validity_check} |->
                                    IF k = validity_check THEN raw.value ELSE self.cache[k]],
                      !.invocations[validity_check].returned = @ + 1],
          exc |-> NoException, value |-> raw.value, invoked |-> TRUE]

\* InputTile._from_cache: raw is what get_raw_output gives if it is invoked
_from_cache(self, validity_check, raw) ==
    IF validity_check \in DOMAIN self.cache
    THEN [self |-> self, exc |-> NoException,
          value |-> self.cache[validity_check], invoked |-> FALSE]
    ELSE IF raw.exc # NoException
    THEN [self |-> [self EXCEPT !.invocations[validity_check].raised = @ + 1],
          exc |-> raw.exc, value |-> <<>>, invoked |-> TRUE]
    ELSE [self |-> [self EXCEPT
                      !.cache = [k \in DOMAIN self.cache \cup {validity_check} |->
                                    IF k = validity_check THEN raw.value ELSE self.cache[k]],
                      !.invocations[validity_check].returned = @ + 1],
          exc |-> NoException, value |-> raw.value, invoked |-> TRUE]

\* InputTile.read
InputTile_read(self, validity_check, no_neighbors, raw) ==
    IF no_neighbors
    THEN [self |-> self, exc |-> "NotImplementedError", value |-> <<>>, invoked |-> FALSE]
    ELSE _from_cache(self, validity_check, raw)

\* InputTile.is_empty
InputTile_is_empty(self, validity_check, raw) ==
    LET r == _from_cache(self, validity_check, raw)
    IN  IF r.exc # NoException THEN r ELSE [r EXCEPT !.value = (Len(r.value) = 0)]

\* an __exit__ that leaves the cache as it is
exit_keeping_cache(self) == [self |-> self, suppress |-> FALSE]

\* InputTile.__exit__: the cache is replaced by an empty one; None is
\* returned, which suppresses nothing
__exit__(self) ==
    [self |-> [self EXCEPT !.cache = NoCache], suppress |-> FALSE]

\* InputTile.__init__
InitInputTile ==
    /\ input_tile = [state |-> "created", cache |-> NoCache,
                     invocations |-> NoInvocations,
                     call |-> [method |-> "__init__"]]
    /\ workers = <<>>
    /\ request = [state |-> "none"]
    /\ scan = [state |-> "none"]
    /\ PNG_DEFAULT_PROFILE = DefaultProfile
    /\ IdleMeta
    /\ NoDriver

InputTileFrame ==
    UNCHANGED <<metaVars, procs, driverVars, workers, request, scan,
                PNG_DEFAULT_PROFILE>>

\* with ... as: __enter__ returns self and changes nothing of it
Enter ==
    /\ input_tile.state # "entered"
    /\ input_tile' = [input_tile EXCEPT
                        !.state = "entered",
                        !.invocations = NoInvocations,
                        !.call = [method |-> "__enter__"]]
    /\ InputTileFrame

\* the calling process reads the features
ReadInput ==
    \E validity_check \in BOOLEAN, no_neighbors \in BOOLEAN, raw \in RawOutcomes :
        /\ Invocations(input_tile, validity_check) < MaxInvocations
        /\ \E r \in {InputTile_read(input_tile, validity_check, no_neighbors, raw)} :
              input_tile' = [r.self EXCEPT
                               !.call = [method |-> "read", flag |-> validity_check,
                                         no_neighbors |-> no_neighbors, exc |-> r.exc,
                                         value |-> r.value, invoked |-> r.invoked]]
        /\ InputTileFrame

\* the calling process asks whether there is data
IsEmpty ==
    \E validity_check \in BOOLEAN, raw \in RawOutcomes :
        /\ Invocations(input_tile, validity_check) < MaxInvocations
        /\ \E r \in {InputTile_is_empty(input_tile, validity_check, raw)} :
              input_tile' = [r.self EXCEPT
                               !.call = [method |-> "is_empty", flag |-> validity_check,
                                         no_neighbors |-> FALSE, exc |-> r.exc,
                                         value |-> r.value, invoked |-> r.invoked]]
        /\ InputTileFrame

\* the scope ends, normally or with the exception v of the computation
Exit ==
    \E v \in {NoException, "ProcessError", "ValueError"} :
        /\ input_tile.state = "entered"
        /\ \E r \in {__exit__(input_tile)} :
              input_tile' = [r.self EXCEPT
                               !.state = "exited",
                               !.invocations = NoInvocations,
                               !.call = [method |-> "__exit__", v |-> v,
                                         dropped |-> DOMAIN input_tile.cache,
                                         exc |-> IF r.suppress THEN NoException ELSE v]]
        /\ InputTileFrame

NextInputTile == Enter \/ ReadInput \/ IsEmpty \/ Exit

SpecInputTile == InitInputTile /\ [][NextInputTile]_vars

\* the last call was a read or is_empty that returned
Answered ==
    /\ input_tile.call.method \in {"read", "is_empty"}
    /\ input_tile.call.exc = NoException

\* read and is_empty give the entry of the flag in the cache
AnsweredFromCache ==
    Answered =>
        /\ input_tile.call.flag \in DOMAIN input_tile.cache
        /\ input_tile.call.value =
              IF input_tile.call.method = "read"
              THEN input_tile.cache[input_tile.call.flag]
              ELSE Len(input_tile.cache[input_tile.call.flag]) = 0

\* C14 as stated: in one scope get_raw_output is invoked at most once for
\* each value of the validity_check flag, and read and is_empty with the
\* same flag are answered from the same cache entry.
C14_AtMostOneInvocationPerFlag ==
    /\ \A k \in BOOLEAN : Invocations(input_tile, k) <= 1
    /\ AnsweredFromCache

\* C14 amended: in one scope at most one invocation of get_raw_output
\* returns for each value of the flag (an invocation that raises caches
\* nothing, so the next call with that flag invokes it again), no invocation
\* follows one that returned, and read and is_empty with the same flag are
\* answered from the same cache entry.
C14_AtMostOneReturningInvocationPerFlag ==
    /\ \A k \in BOOLEAN :
          /\ input_tile.invocations[k].returned <= 1
          /\ input_tile.invocations[k].returned = 1 => k \in DOMAIN input_tile.cache
    /\ Answered /\ input_tile.call.invoked =>
          /\ input_tile.invocations[input_tile.call.flag].returned = 1
    /\ AnsweredFromCache

C14_Witness ==
    /\ input_tile.state = "entered"
    /\ input_tile.call.method = "is_empty"
    /\ input_tile.call.exc = NoException
    /\ ~input_tile.call.invoked
    /\ input_tile.call.value = FALSE
    /\ input_tile.invocations[input_tile.call.flag].returned = 1
    /\ input_tile.invocations[input_tile.call.flag].raised = 1
    /\ DOMAIN input_tile.cache = BOOLEAN

\* C15: __exit__ leaves the cache empty whether the scope ended normally or
\* with an exception, does not suppress the exception, and the first read or
\* is_empty after it invokes the wrapped process again.
C15_ExitClearsTheCache ==
    [][/\ input_tile'.call.method = "__exit__" =>
            /\ input_tile'.cache = NoCache
            /\ input_tile'.call.exc = input_tile'.call.v
       /\ (/\ input_tile.call.method = "__exit__"
           /\ input_tile'.call.method \in {"read", "is_empty"}
           /\ ~input_tile'.call.no_neighbors)
            => input_tile'.call.invoked
      ]_vars

C15_Witness ==
    /\ input_tile.call.method = "__exit__"
    /\ input_tile.call.v = "ValueError"
    /\ input_tile.call.exc = "ValueError"
    /\ input_tile.call.dropped = BOOLEAN
    /\ input_tile.cache = NoCache

(***************************************************************************)
(* serve.py: the web tile server                                           *)
(***************************************************************************)
\* the keys of mapchete_processes, and a name no process has
ProcessNames == {"example"}

RequestedNames == ProcessNames \cup {"unknown"}

\* requested (zoom, row, col); web_pyramid.tile refuses the last one, whose
\* column lies outside the grid
WebTileIds ==
    {[zoom |-> 7, row |-> 3, col |-> 5], [zoom |-> 0, row |-> 0, col |-> 1],
     [zoom |-> 0, row |-> 0, col |-> 2]}

WebTileIsValid(id) == id.col < GridCols * (2 ^ id.zoom)

\* what mp.get_raw_output(web_tile) can give: the data of the tile, or an
\* exception of the process; a vector process returns its features as a
\* list or as a generator that yields them once
WebOutcomes(drv) ==
    {[exc |-> "ProcessError"]}
        \cup {[exc |-> NoException, data |-> d] :
                d \in IF drv.kind = "GeoJSON"
                      THEN {[kind |-> "None"]}
                               \cup {[kind |-> k, items |-> l] :
                                        k \in {"list", "generator"},
                                        l \in FeatureLists({0})}
                      ELSE RasterPayloads({0}, IF drv.kind = "PNG" THEN BandCounts ELSE {1})}

\* the Cache-Control directives a response of flask.send_file carries by
\* default, which differ between the versions of flask
SendFileCacheControl == {{"public", "max-age"}, {"no-cache"}, {}}

\* the directives a response's cache_control writes to the header; another
\* attribute set on it stays a plain attribute
CacheDirectives ==
    {"no-cache", "no-store", "no-transform", "max-age", "public", "private",
     "must-revalidate", "proxy-revalidate", "s-maxage"}

\* OutputData.for_web of the three drivers; list(data) of geojson.py takes
\* every item out of a generator
for_web(drv, data) ==
    CASE drv.kind = "PNG" ->
            LET prepared == _prepare_array_for_png(drv, data)
            IN  IF prepared.exc # NoException
                THEN [exc |-> prepared.exc]
                ELSE [exc |-> NoException, out_data |-> "MemoryFile",
                      mime_type |-> "image/png"]
      [] drv.kind = "PNG_hillshade" ->
            IF _prepare_array(drv, data).count # drv.count
            THEN [exc |-> "ValueError"]
            ELSE [exc |-> NoException, out_data |-> "MemoryFile",
                  mime_type |-> "image/png"]
      [] OTHER ->
            IF data.kind = "None"
            THEN [exc |-> "TypeError"]
            ELSE [exc |-> NoException, out_data |-> "list", items |-> data.items,
                  mime_type |-> "application/json"]

\* the Cache-Control header of a response from its cache_control attributes
CacheControlHeader(attributes) == attributes \cap CacheDirectives

\* jsonify(data) after for_web(data) has run: a list is serialized; a
\* generator, which list(data) has used up, is not JSON serializable
jsonify(data) ==
    IF data.kind = "generator"
    THEN [exc |-> "TypeError"]
    ELSE [exc |-> NoException, body |-> data.items]

\* _valid_tile_response: sent is what send_file has put into cache_control
_valid_tile_response(drv, data, sent) ==
    LET web == for_web(drv, data)
        body == IF web.out_data = "list"
                THEN jsonify(data)
                ELSE [exc |-> NoException, body |-> "image"]
    IN  IF web.exc # NoException
        THEN [exc |-> web.exc]
        ELSE IF web.out_data \notin {"MemoryFile", "list"}
        THEN [exc |-> "TypeError"]
        ELSE IF body.exc # NoException
        THEN [exc |-> body.exc]
        ELSE [exc |-> NoException, status |-> 200,
              body |-> body.body,
              Content_Type |-> web.mime_type,
              Cache_Control |->
                  CacheControlHeader(
                      (IF web.out_data = "MemoryFile" THEN sent ELSE {}) \cup {"no_write"})]

ExceptionLog(id) == [level |-> "exception", msg |-> "getting web tile failed", tile |-> id]

DebugLog(msg, id) == [level |-> "debug", msg |-> msg, tile |-> id]

\* _tile_response(mp, web_tile, debug)
_tile_response(drv, id, debug, raw, sent) ==
    LET response == IF raw.exc # NoException
                    THEN [exc |-> raw.exc]
                    ELSE _valid_tile_response(drv, raw.data, sent)
    IN  IF response.exc = NoException
        THEN [response |-> response, log |-> <<DebugLog("getting web tile", id)>>]
        ELSE [response |-> IF debug
                           THEN [exc |-> response.exc]
                           ELSE [exc |-> NoException, status |-> 500],
              log |-> <<DebugLog("getting web tile", id), ExceptionLog(id)>>]

\* create_app.get: the process is looked up and the tile resolved while the
\* arguments of _tile_response are evaluated, before its try is entered
get(drv, mp_name, id, debug, raw, sent) ==
    IF mp_name \notin ProcessNames
    THEN [response |-> [exc |-> "KeyError"],
          log |-> <<DebugLog("received tile", id)>>]
    ELSE IF ~WebTileIsValid(id)
    THEN [response |-> [exc |-> "ValueError"],
          log |-> <<DebugLog("received tile", id)>>]
    ELSE LET r == _tile_response(drv, id, debug, raw, sent)
         IN  [r EXCEPT !.log = <<DebugLog("received tile", id)>> \o @]

ServeDrivers == {d \in Drivers : d.metatiling = 1 /\ d.process_metatiling = 1}

\* create_app(..., debug=debug)
InitServe ==
    /\ driver \in ServeDrivers
    /\ \E debug \in BOOLEAN : request = [state |-> "app", debug |-> debug]
    /\ files = <<>>
    /\ dirs = {}
    /\ last = [op |-> "none"]
    /\ workers = <<>>
    /\ input_tile = [state |-> "none"]
    /\ scan = [state |-> "none"]
    /\ PNG_DEFAULT_PROFILE = DefaultProfile
    /\ IdleMeta

\* GET /wmts_simple/1.0.0/<mp_name>/default/<grid>/<zoom>/<row>/<col>.<ext>
GetTile ==
    \E mp_name \in RequestedNames, id \in WebTileIds,
       raw \in WebOutcomes(driver), sent \in SendFileCacheControl :
        \E r \in {get(driver, mp_name, id, request.debug, raw, sent)} :
            /\ request' = [state |-> "answered", debug |-> request.debug,
                           mp_name |-> mp_name, tile |-> id, raw |-> raw.exc,
                           data |-> IF raw.exc = NoException
                                    THEN raw.data
                                    ELSE [kind |-> "None"],
                           response |-> r.response, log |-> r.log]
            /\ UNCHANGED <<driverVars, metaVars, procs, workers, input_tile, scan,
                         PNG_DEFAULT_PROFILE>>

NextServe == GetTile

SpecServe == InitServe /\ [][NextServe]_vars

Answered500 ==
    /\ request.response.exc = NoException
    /\ request.response.status = 500

Succeeded ==
    /\ request.state = "answered"
    /\ request.response.exc = NoException
    /\ request.response.status = 200

\* C16: a request in which the lookup of the process, the resolution of the
\* tile, get_raw_output or for_web raised is, with debug unset, logged as
\* failed with the tile's id and answered with HTTP 500, and with debug set
\* ends with the exception raised.
C16_FailuresAreLoggedAndAnswered500 ==
    (request.state = "answered" /\ ~Succeeded) =>
        IF request.debug
        THEN request.response.exc # NoException
        ELSE /\ Answered500
             /\ \E k \in DOMAIN request.log : request.log[k] = ExceptionLog(request.tile)

\* C17: a request answered from a raster driver has status 200, the
\* Content-Type image/png and a Cache-Control header with a directive that
\* forbids caching.
C17_RasterResponseIsNotCached ==
    (Succeeded /\ driver.kind \in {"PNG", "PNG_hillshade"}) =>
        /\ request.response.status = 200
        /\ request.response.Content_Type = "image/png"
        /\ request.response.Cache_Control \cap {"no-store", "no-cache"} # {}

(***************************************************************************)
(* get_best_zoom_level                                                     *)
(***************************************************************************)
\* for zoom in range(0, 40)
ScanZooms == 0..39

\* the floats of the code as fractions n / d of whole units (centimetres)
Rat(n, d) == [n |-> n, d |-> d]

Times(a, b) == Rat(a.n * b.n, a.d * b.d)

Plus(a, b) == Rat(a.n * b.d + b.n * a.d, a.d * b.d)

Leq(a, b) == a.n * b.d <= b.n * a.d

\* pixel sizes by zoom of a grid with 0.95 m at zoom 12 and 0.45 m at zoom 13
ScenarioGrid ==
    <<389120, 194560, 97280, 48640, 24320, 12160, 6080, 3040, 1520, 760, 380,
      190, 95, 45>>

\* pixel sizes by zoom of a grid that starts at 2.56 m
SmallGrid == <<256, 128, 64, 32>>

PixelGrids == {ScenarioGrid, SmallGrid}

\* tile_pyramid.pixel_x_size(zoom): the listed size, halved for each zoom
\* beyond the list
pixel_x_size(grid, zoom) ==
    IF zoom < Len(grid)
    THEN Rat(grid[zoom + 1], 1)
    ELSE Rat(grid[Len(grid)], 2 ^ (zoom - Len(grid) + 1))

\* the source rasters: width and height in pixels, extent of the reprojected
\* bounds in units
SourceResolutions == {30, 100, 170, 128, 256, 1000}

SourceSizes == {1, 2, 3}

Sources ==
    {[width |-> w, height |-> h, x_dif |-> rx * w, y_dif |-> ry * h] :
        w \in SourceSizes, h \in SourceSizes,
        rx \in SourceResolutions, ry \in SourceResolutions}

\* source rasters whose reprojected bounds have no extent, so that their
\* average resolution, 0, is finer than the pixel size of every zoom
PointSources ==
    {[width |-> w, height |-> h, x_dif |-> 0, y_dif |-> 0] :
        w \in SourceSizes, h \in SourceSizes}

\* the calls made: every source on every grid, and the sources without
\* extent on the grid whose pixel sizes are whole fractions up to zoom 39
ZoomInputs ==
    (Sources \X PixelGrids) \cup (PointSources \X {ScenarioGrid})

\* avg_resolution of get_best_zoom_level
avg_resolution(src) ==
    LET size == src.width + src.height
    IN  Plus(Times(Rat(src.x_dif, src.width), Rat(src.width, size)),
             Times(Rat(src.y_dif, src.height), Rat(src.height, size)))

\* a scan that wants a pixel size below the average resolution
RECURSIVE scan_strict(_, _, _)
scan_strict(grid, avg, zoom) ==
    IF zoom \notin ScanZooms
    THEN [type |-> "None"]
    ELSE IF Leq(pixel_x_size(grid, zoom), avg) /\ ~Leq(avg, pixel_x_size(grid, zoom))
    THEN [type |-> "int", zoom |-> zoom - 1]
    ELSE scan_strict(grid, avg, zoom + 1)

\* a scan that returns the zoom it stops at
RECURSIVE scan_returning_match(_, _, _)
scan_returning_match(grid, avg, zoom) ==
    IF zoom \notin ScanZooms
    THEN [type |-> "None"]
    ELSE IF Leq(pixel_x_size(grid, zoom), avg)
    THEN [type |-> "int", zoom |-> zoom]
    ELSE scan_returning_match(grid, avg, zoom + 1)

\* the for loop of get_best_zoom_level from zoom on; the function ends
\* without a return statement when no zoom of the range matches
RECURSIVE scan_zooms(_, _, _)
scan_zooms(grid, avg, zoom) ==
    IF zoom \notin ScanZooms
    THEN [type |-> "None"]
    ELSE IF Leq(pixel_x_size(grid, zoom), avg)
    THEN [type |-> "int", zoom |-> zoom - 1]
    ELSE scan_zooms(grid, avg, zoom + 1)

get_best_zoom_level(src, grid) == scan_zooms(grid, avg_resolution(src), 0)

InitZoom ==
    /\ scan = [state |-> "none"]
    /\ PNG_DEFAULT_PROFILE = DefaultProfile
    /\ workers = <<>>
    /\ input_tile = [state |-> "none"]
    /\ request = [state |-> "none"]
    /\ IdleMeta
    /\ NoDriver

\* one call of get_best_zoom_level(input_file, tile_pyramid_type)
GetBestZoomLevel ==
    \E input \in ZoomInputs :
        /\ scan.state = "none"
        /\ scan' = [state |-> "returned", src |-> input[1], grid |-> input[2],
                    result |-> get_best_zoom_level(input[1], input[2])]
        /\ UNCHANGED <<metaVars, procs, driverVars, workers, input_tile, request,
                     PNG_DEFAULT_PROFILE>>

NextZoom == GetBestZoomLevel

SpecZoom == InitZoom /\ [][NextZoom]_vars

\* the average resolution as the claim writes it
StatedAverage(src) ==
    LET w == src.width
        h == src.height
    IN  Plus(Times(Rat(src.x_dif, w), Rat(w, w + h)),
             Times(Rat(src.y_dif, h), Rat(h, w + h)))

\* z is the first zoom whose pixel size is at most the average resolution
FirstZoomAtMost(grid, avg, z) ==
    /\ \A y \in 0..(z - 1) : ~Leq(pixel_x_size(grid, y), avg)
    /\ Leq(pixel_x_size(grid, z), avg)

\* C18: get_best_zoom_level returns z - 1, z being the first zoom from 0
\* upwards whose pixel size is at most the average resolution
\* (x_dif/width)*(width/(width+height)) + (y_dif/height)*(height/(width+height)).
C18_ZoomBeforeTheFirstFineEnough ==
    scan.state = "returned" =>
        \A z \in ScanZooms :
            FirstZoomAtMost(scan.grid, StatedAverage(scan.src), z) =>
                /\ scan.result.type = "int"
                /\ scan.result.zoom = z - 1

C18_Witness ==
    /\ scan.state = "returned"
    /\ scan.grid = SmallGrid
    /\ scan.src = [width |-> 1, height |-> 3, x_dif |-> 30, y_dif |-> 300]
    /\ FirstZoomAtMost(SmallGrid, Rat(330, 4), 2)
    /\ scan.result = [type |-> "int", zoom |-> 1]

\* the scenario: 1 m of average resolution on the grid with 0.95 m at zoom 12
Scenario ==
    /\ scan.state = "returned"
    /\ scan.grid = ScenarioGrid
    /\ scan.src.x_dif + scan.src.y_dif = 100 * (scan.src.width + scan.src.height)

\* C19 as stated: in the scenario get_best_zoom_level returns 12.
C19_ScenarioReturns12 == Scenario => scan.result = [type |-> "int", zoom |-> 12]

\* C19 amended: in the scenario get_best_zoom_level returns 11, the zoom
\* before zoom 12, which is the first whose pixel size (0.95 m) is at most
\* the average resolution of 1 m.
C19_ScenarioReturns11 == Scenario => scan.result = [type |-> "int", zoom |-> 11]

C19_Witness ==
    /\ Scenario
    /\ scan.src = [width |-> 2, height |-> 2, x_dif |-> 60, y_dif |-> 340]
    /\ scan.result.zoom = 11

\* C20: the zoom get_best_zoom_level returns is never below 0.
C20_ZoomIsNeverBelowTheScanBound ==
    (scan.state = "returned" /\ scan.result.type = "int") => scan.result.zoom >= 0

(***************************************************************************)
(* makedirs, step by step and with callers running at the same time        *)
(***************************************************************************)
S3Path == [scheme |-> "s3", root |-> "bucket"]

HttpPath == [scheme |-> "https", root |-> "host"]

\* the directory of a tile under a local and under remote output paths
MakedirsPaths ==
    {<<root, "/", "0", "/", "0">> : root \in {LocalPath, S3Path, HttpPath}}

\* the number of directories os.makedirs may have to create for dir
Depth(dir) == Cardinality(Separators(dir)) + 1

\* the i-th of them, parents first
PrefixAt(dir, i) ==
    IF i = Depth(dir)
    THEN dir
    ELSE LET k == CHOOSE k \in Separators(dir) :
                      Cardinality({j \in Separators(dir) : j <= k}) = i
         IN  SubSeq(dir, 1, k - 1)

\* what can keep a directory from being created besides its existence
MkdirFaults == {NoException, "PermissionError"}

\* os.mkdir(path): regular holds the paths that are regular files
mkdir(ds, regular, path, fault) ==
    IF fault # NoException
    THEN [dirs |-> ds, exc |-> fault]
    ELSE IF path \in ds \/ path \in regular
    THEN [dirs |-> ds, exc |-> "FileExistsError"]
    ELSE IF dirname(path) \in regular
    THEN [dirs |-> ds, exc |-> "NotADirectoryError"]
    ELSE [dirs |-> ds \cup {path}, exc |-> NoException]

\* a makedirs without the try: the OSError reaches the caller
makedirs_raising(oserror) == oserror

\* except OSError: pass -- what reaches the caller of makedirs
makedirs_except(oserror) == NoException

Callers == {1, 2}

\* the callers are about to call makedirs on one path; some of its
\* directories may exist, and a regular file may be in the way
InitMakedirs ==
    /\ \E path \in MakedirsPaths :
          /\ procs = [p \in Callers |->
                         [path |-> path, pc |-> "start", k |-> 1, created |-> {},
                          oserror |-> NoException, raised |-> NoException]]
          /\ \E n \in 0..(IF path_is_remote(path[1]) THEN 0 ELSE Depth(path)) :
                dirs = {PrefixAt(path, i) : i \in 1..n}
          /\ \E regular \in {{}} \cup {{f} : f \in {PrefixAt(path, 2)} \ dirs} :
                files = [f \in regular |-> [kind |-> "regular"]]
    /\ driver = [kind |-> "none"]
    /\ last = [op |-> "none"]
    /\ supplied = [path |-> OutputPath]
    /\ params = supplied
    /\ metadata = Absent
    /\ origin = supplied
    /\ writes = 0
    /\ result = "none"
    /\ IdleAux

MakedirsFrame ==
    UNCHANGED <<supplied, params, metadata, origin, writes, result, driver,
                files, last, auxVars>>

\* if not path_is_remote(path): ... else nothing is done
EnterMakedirs(p) ==
    /\ procs[p].pc = "start"
    /\ procs' = [procs EXCEPT ![p].pc =
                    IF path_is_remote(procs[p].path[1]) THEN "returned" ELSE "os.makedirs"]
    /\ UNCHANGED dirs
    /\ MakedirsFrame

\* os.makedirs(path) creates the next directory; a parent that exists is
\* passed over, any other failure is an OSError, which makedirs handles
MkdirStep(p) ==
    /\ procs[p].pc = "os.makedirs"
    /\ \E fault \in MkdirFaults :
        LET path == PrefixAt(procs[p].path, procs[p].k)
            leaf == procs[p].k = Depth(procs[p].path)
        IN  \E r \in {mkdir(dirs, DOMAIN files, path, fault)} :
              /\ dirs' = r.dirs
              /\ procs' = [procs EXCEPT ![p] =
                    IF r.exc = NoException \/ (r.exc = "FileExistsError" /\ ~leaf)
                    THEN [@ EXCEPT
                            !.created = IF r.exc = NoException THEN @ \cup {path} ELSE @,
                            !.k = IF leaf THEN @ ELSE @ + 1,
                            !.pc = IF leaf THEN "returned" ELSE "os.makedirs"]
                    ELSE [@ EXCEPT
                            !.oserror = r.exc,
                            !.raised = makedirs_except(r.exc),
                            !.pc = "returned"]]
    /\ MakedirsFrame

NextMakedirs == \E p \in Callers : EnterMakedirs(p) \/ MkdirStep(p)

SpecMakedirs == InitMakedirs /\ [][NextMakedirs]_vars

MakedirsReturned(p) == procs[p].pc = "returned"

\* nothing but existing directories was in p's way
Unhindered(p) ==
    /\ procs[p].oserror \in {NoException, "FileExistsError"}
    /\ DOMAIN files = {}

\* C21: makedirs calls on one path, one after another or at the same time,
\* raise nothing; for a local path that nothing but existing directories
\* stands in the way of, the directory is there when a call has returned;
\* for a remote path nothing is created.
C21_MakedirsIsIdempotentAndRaceTolerant ==
    \A p \in Callers :
        MakedirsReturned(p) =>
            /\ procs[p].raised = NoException
            /\ IF path_is_remote(procs[p].path[1])
               THEN procs[p].created = {} /\ procs[p].path \notin dirs
               ELSE Unhindered(p) => procs[p].path \in dirs

C21_Witness ==
    /\ \A p \in Callers : MakedirsReturned(p) /\ Unhindered(p) /\ procs[p].created # {}
    /\ \E p \in Callers : procs[p].oserror = "FileExistsError"
    /\ procs[1].path \in dirs

\* C30: when a directory cannot be created for another reason than its
\* existence, makedirs raises that failure to its caller.
C30_OtherFailuresOfMakedirsPropagate ==
    \A p \in Callers :
        (MakedirsReturned(p) /\ procs[p].oserror \in {"PermissionError", "NotADirectoryError"})
            => procs[p].raised = procs[p].oserror

(***************************************************************************)
(* write_output_metadata on a location whose record cannot be read         *)
(***************************************************************************)
\* the file exists and open(path, "r") fails with PermissionError
Unreadable == [state |-> "unreadable"]

\* what a run can find at the metadata path: nothing, a file that is there
\* but cannot be opened or parsed, or the record of an earlier run
FoundRecords ==
    {Absent, Partial, Unreadable}
        \cup {write_json(params_to_dump(c)) : c \in RaceConfigs}

InitRecord ==
    /\ metadata \in FoundRecords
    /\ supplied = [path |-> OutputPath]
    /\ params = supplied
    /\ origin = supplied
    /\ writes = 0
    /\ result = "none"
    /\ procs = IdleProcs
    /\ NoDriver
    /\ IdleAux

SpecRecord == InitRecord /\ [][NextMeta]_vars

\* C22: write_output_metadata writes the record only when read_json found
\* the file absent; a file that is there, readable or not, is left as it is.
C22_OnlyAnAbsentRecordIsWritten ==
    [][metadata.state # "absent" => (metadata' = metadata /\ writes' = writes)]_vars

(***************************************************************************)
(* Claims on empty, profile and the encoding of the raster drivers         *)
(***************************************************************************)
\* data with no valid pixel and no feature
AllNoData(value) ==
    CASE value.kind = "list" -> value.items = <<>>
      [] value.kind = "band" -> \A c \in DOMAIN value.mask : value.mask[c]
      [] OTHER -> \A c \in DOMAIN value.mask :
                      \A b \in DOMAIN value.mask[c] : value.mask[c][b]

\* C23: what empty(tile) returns is all no-data: a raster driver's array
\* covers the cells of the tile with every pixel masked, a vector driver's
\* sequence is empty.
C23_EmptyIsAllNoData ==
    last.op = "read" =>
        LET value == empty(driver, last.tile)
        IN  /\ AllNoData(value)
            /\ value.kind # "list" => DOMAIN value.px = Cells(last.tile, driver.metatiling)

(***************************************************************************)
(* GeoJSON is_valid_with_config                                            *)
(***************************************************************************)
\* Python values by their type: isinstance looks at t
PyStr(v) == [t |-> "str", v |-> v]

PyInt(v) == [t |-> "int", n |-> v]

PyDict(items) == [t |-> "dict", items |-> items]

\* the geometry names is_valid_with_config accepts
GeoJSONGeometries ==
    {"Geometry", "Point", "MultiPoint", "Line", "MultiLine", "Polygon", "MultiPolygon"}

PropertiesValues == {PyDict([id |-> "int"]), PyStr("id")}

GeometryValues == {PyStr(g) : g \in GeoJSONGeometries \cup {"LineString"}} \cup {PyInt(1)}

SchemaValues ==
    {PyDict([k \in ks |-> IF k = "properties" THEN p ELSE g]) :
        ks \in SUBSET {"properties", "geometry"},
        p \in PropertiesValues, g \in GeometryValues}
        \cup {PyStr("schema.json")}

PathValues == {PyStr("out"), PyInt(1)}

\* the pyramid of the output: an object with the attribute type
PyramidValues == {[t |-> "TilePyramid", type |-> g] : g \in GridTypes}

\* output configurations with every combination of missing keys, values of
\* a wrong type and unsupported values
ValidationConfigs ==
    {[k \in ks |-> CASE k = "schema" -> sc [] k = "path" -> pa [] OTHER -> py] :
        ks \in SUBSET {"schema", "path", "type"},
        sc \in SchemaValues, pa \in PathValues, py \in PyramidValues}

\* a validate_values that looks for the keys and not at the types
validate_values_keys_only(config, values) ==
    IF config.t # "dict"
    THEN "TypeError"
    ELSE IF \E i \in 1..Len(values) : values[i][1] \notin DOMAIN config.items
    THEN "ValueError"
    ELSE NoException

\* mapchete.config.validate_values: every (key, type) of values is in config
\* with a value of that type, else an error; the error of the first entry
\* that fails
validate_values(config, values) ==
    IF config.t # "dict"
    THEN "TypeError"
    ELSE LET bad == {i \in 1..Len(values) :
                        \/ values[i][1] \notin DOMAIN config.items
                        \/ config.items[values[i][1]].t # values[i][2]}
         IN  IF bad = {}
             THEN NoException
             ELSE LET i == CHOOSE i \in bad : \A j \in bad : i <= j
                  IN  IF values[i][1] \notin DOMAIN config.items
                      THEN "ValueError"
                      ELSE "TypeError"

\* OutputData.is_valid_with_config of geojson.py: the exception raised, or
\* the value returned
is_valid_with_config(config) ==
    LET first == validate_values(PyDict(config), <<<<"schema", "dict">>, <<"path", "str">>>>)
    IN  IF first # NoException
        THEN [exc |-> first]
        ELSE LET second == validate_values(
                     config["schema"], <<<<"properties", "dict">>, <<"geometry", "str">>>>)
             IN  IF second # NoException
                 THEN [exc |-> second]
                 ELSE IF config["schema"].items["geometry"] \notin
                             {PyStr(g) : g \in GeoJSONGeometries}
                 THEN [exc |-> "TypeError"]
                 ELSE IF "type" \notin DOMAIN config
                 THEN [exc |-> "KeyError"]
                 ELSE IF config["type"].type # "geodetic"
                 THEN [exc |-> "ValueError"]
                 ELSE [exc |-> NoException, value |-> TRUE]

InitValid ==
    /\ supplied \in ValidationConfigs
    /\ params = [path |-> OutputPath]
    /\ metadata = Absent
    /\ origin = params
    /\ writes = 0
    /\ result = "none"
    /\ procs = IdleProcs
    /\ NoDriver
    /\ IdleAux

\* the configuration held in supplied is validated
IsValidWithConfig ==
    /\ last.op = "none"
    /\ \E r \in {is_valid_with_config(supplied)} :
          last' = [op |-> "is_valid_with_config", config |-> supplied, out |-> r]
    /\ UNCHANGED <<metaVars, procs, driver, files, dirs, auxVars>>

NextValid == IsValidWithConfig

SpecValid == InitValid /\ [][NextValid]_vars

\* what the claim lists: a dict schema with dict properties and a geometry
\* name of the accepted set, a string path and a geodetic pyramid
ValidGeoJSONConfig(config) ==
    /\ {"schema", "path", "type"} \subseteq DOMAIN config
    /\ config["schema"].t = "dict"
    /\ {"properties", "geometry"} \subseteq DOMAIN config["schema"].items
    /\ config["schema"].items["properties"].t = "dict"
    /\ config["schema"].items["geometry"].t = "str"
    /\ config["schema"].items["geometry"].v \in GeoJSONGeometries
    /\ config["path"].t = "str"
    /\ config["type"].type = "geodetic"

\* C24: GeoJSON's is_valid_with_config returns True for exactly the
\* configurations the claim lists and raises an error for every other one;
\* it touches no file or directory and leaves the configuration as it was.
C24_ValidOrError ==
    last.op = "is_valid_with_config" =>
        /\ IF ValidGeoJSONConfig(last.config)
           THEN last.out = [exc |-> NoException, value |-> TRUE]
           ELSE last.out.exc # NoException
        /\ supplied = last.config
        /\ files = [x \in {} |-> 0]
        /\ dirs = {}

C24_Witness ==
    /\ last.op = "is_valid_with_config"
    /\ ValidGeoJSONConfig(last.config)
    /\ last.out.exc = NoException

C24_WitnessRejected ==
    /\ last.op = "is_valid_with_config"
    /\ "schema" \in DOMAIN last.config
    /\ last.config["schema"].t = "dict"
    /\ "geometry" \in DOMAIN last.config["schema"].items
    /\ last.config["schema"].items["geometry"] = PyStr("LineString")
    /\ last.out.exc = "TypeError"

(***************************************************************************)
(* path_exists                                                             *)
(***************************************************************************)
\* names below the root of a store: one is a prefix of two others
StoreKeys == {<<"a">>, <<"a", "b">>, <<"a", "/", "b">>, <<"c">>}

\* the statuses a server answers a request with
HttpStatuses == {200, 403, 404, 500}

ExistsRoots ==
    {LocalPath, S3Path, HttpPath, [scheme |-> "http", root |-> "host"]}

\* bucket.objects.filter(Prefix=key): the objects whose key starts with key
filter(objects, key) ==
    {obj \in objects : Len(key) <= Len(obj) /\ SubSeq(obj, 1, Len(key)) = key}

\* a lookup that takes any listed object for the target
s3_any_listed(objects, key) == filter(objects, key) # {}

\* for obj in bucket.objects.filter(Prefix=key): if obj.key == key
s3_key_exists(objects, key) == \E obj \in filter(objects, key) : obj = key

\* path_exists(path): stored holds the names present in the store of the
\* path, status is what the server answers for an http(s) path
path_exists(path, stored, status) ==
    IF path.root.scheme \in {"http", "https"}
    THEN IF status = 200
         THEN [exc |-> NoException, value |-> TRUE]
         ELSE IF status = 404
         THEN [exc |-> NoException, value |-> FALSE]
         ELSE [exc |-> "HTTPError", code |-> status]
    ELSE IF path.root.scheme = "s3"
    THEN [exc |-> NoException, value |-> s3_key_exists(stored, path.key)]
    ELSE [exc |-> NoException, value |-> path.key \in stored]

\* a path and the store behind it: for http(s) the server answers 200 for
\* what it holds
InitExists ==
    /\ \E root \in ExistsRoots, key \in StoreKeys \ {<<"c">>} :
          supplied = [path |-> [root |-> root, key |-> key]]
    /\ \E stored \in SUBSET StoreKeys :
          files = [f \in stored |-> [kind |-> "object"]]
    /\ params = [path |-> OutputPath]
    /\ metadata = Absent
    /\ origin = params
    /\ writes = 0
    /\ result = "none"
    /\ procs = IdleProcs
    /\ driver = [kind |-> "none"]
    /\ dirs = {}
    /\ last = [op |-> "none"]
    /\ IdleAux

\* the statuses the server can answer the request with: 200 only for what
\* it holds, 404 only for what it does not hold; no request is made for a
\* path that is not http(s)
Answers(path, stored) ==
    IF path.root.scheme \notin {"http", "https"}
    THEN {"no request"}
    ELSE IF path.key \in stored
    THEN HttpStatuses \ {404}
    ELSE HttpStatuses \ {200}

PathExists ==
    /\ last.op = "none"
    /\ \E status \in Answers(supplied.path, DOMAIN files) :
        \E r \in {path_exists(supplied.path, DOMAIN files, status)} :
          last' = [op |-> "path_exists", path |-> supplied.path,
                   status |-> status, out |-> r]
    /\ UNCHANGED <<metaVars, procs, driver, files, dirs, auxVars>>

NextExists == PathExists

SpecExists == InitExists /\ [][NextExists]_vars

IsHttp(path) == path.root.scheme \in {"http", "https"}

\* the target is not there: the server says 404, or the store has no entry
\* of exactly that name
TargetAbsent ==
    IF IsHttp(last.path) THEN last.status = 404 ELSE last.path.key \notin DOMAIN files

\* the request failed for another reason than absence
HttpFailure == IsHttp(last.path) /\ last.status \notin {200, 404}

\* C25: path_exists returns False, raising nothing, exactly when the target
\* is absent (404; no object with exactly that key, whatever other keys
\* start with it; no local entry), returns True when it exists, and raises
\* the HTTPError of any other http failure.
C25_FalseExactlyWhenAbsent ==
    last.op = "path_exists" =>
        IF HttpFailure
        THEN last.out = [exc |-> "HTTPError", code |-> last.status]
        ELSE /\ last.out.exc = NoException
             /\ last.out.value = ~TargetAbsent

\* an s3 key that is absent while other objects start with it
C25_Witness ==
    /\ last.op = "path_exists"
    /\ last.path.root.scheme = "s3"
    /\ last.path.key = <<"a">>
    /\ DOMAIN files = {<<"a", "b">>, <<"a", "/", "b">>}
    /\ last.out = [exc |-> NoException, value |-> FALSE]

\* the band index read of png_hillshade.py decodes
ReadIndex(drv) == IF drv.old_band_num THEN 4 ELSE 2

\* C26: for every PNG_hillshade configuration (old_band_num absent, True or
\* False) the band count of the profile is the number of bands
\* _prepare_array encodes, the last encoded band holds 255 - input, and
\* read decodes that band.
C26_ProfileCountIsTheEncodedBandCount ==
    (driver.kind = "PNG_hillshade" /\ last.op = "write") =>
        LET enc == _prepare_array(driver, last.data)
        IN  /\ driver.count = enc.count
            /\ ReadIndex(driver) = enc.count
            /\ \A c \in DOMAIN enc.px :
                  ~last.data.px[c].m =>
                      enc.px[c][enc.count] = uint8(255 - last.data.px[c].v)

(***************************************************************************)
(* Two PNG instances of one interpreter and the module-level profile       *)
(***************************************************************************)
Instances == {1, 2}

\* output parameters without and with a band count of their own
ProfileParams ==
    {[path |-> LocalPath, metatiling |-> 1],
     [path |-> LocalPath, metatiling |-> 1, count |-> 3]}

\* data of one band: all zeros, all 255
ProfilePayloads(cells) ==
    {[kind |-> "array", n |-> 1, px |-> [c \in cells |-> p]] :
        p \in {[v |-> 0, w |-> 0, m |-> FALSE], [v |-> 255, w |-> 255, m |-> FALSE]}}

InitProfile ==
    /\ \E o1 \in ProfileParams, o2 \in ProfileParams :
          driver = <<PNG(o1, 1), PNG(o2, 1)>>
    /\ files = [p \in OutputPaths(driver[1]) |-> NoFile]
    /\ dirs = {}
    /\ last = [op |-> "none"]
    /\ IdleMeta
    /\ IdleAux

ProfileFrame == UNCHANGED <<driver, metaVars, procs, workers, input_tile, request, scan>>

\* profile(tile) or profile() is called on instance i
Profile(i) ==
    /\ \E opt \in {<<>>} \cup {<<t>> : t \in Tiles(1)} :
        \E r \in {png_profile(PNG_DEFAULT_PROFILE, driver[i], opt)} :
          /\ PNG_DEFAULT_PROFILE' = r
          /\ last' = [op |-> "profile", instance |-> i, exc |-> NoException]
    /\ UNCHANGED <<files, dirs>>
    /\ ProfileFrame

\* write on instance i: profile(out_tile) is called for every output tile
\* the loop comes to, the last of them leaving its keys in the dictionary
ProfileWrite(i) ==
    /\ \E process_tile \in Tiles(1) :
        \E data \in ProfilePayloads(Cells(process_tile, 1)) :
          \E r \in {write(driver[i], process_tile, data, files, dirs)} :
            LET tiles == intersecting(1, process_tile, 1)
                reached == Cardinality({k \in 1..Len(r.trace) : r.trace[k].e = "makedirs"})
            IN  /\ files' = r.files
                /\ dirs' = r.dirs
                /\ PNG_DEFAULT_PROFILE' =
                       IF reached = 0
                       THEN PNG_DEFAULT_PROFILE
                       ELSE png_profile(PNG_DEFAULT_PROFILE, driver[i], <<tiles[reached]>>)
                /\ last' = [op |-> "write", instance |-> i, exc |-> r.exc]
    /\ ProfileFrame

\* for_web on instance i: memory_file(data, self.profile())
ProfileForWeb(i) ==
    /\ \E data \in ProfilePayloads(Cells([zoom |-> 0, row |-> 0, col |-> 0], 1)) :
        \E r \in {for_web(driver[i], data)} :
          /\ PNG_DEFAULT_PROFILE' =
                 IF r.exc = NoException
                 THEN png_profile(PNG_DEFAULT_PROFILE, driver[i], <<>>)
                 ELSE PNG_DEFAULT_PROFILE
          /\ last' = [op |-> "for_web", instance |-> i, exc |-> r.exc]
    /\ UNCHANGED <<files, dirs>>
    /\ ProfileFrame

NextProfile == \E i \in Instances : Profile(i) \/ ProfileWrite(i) \/ ProfileForWeb(i)

SpecProfile == InitProfile /\ [][NextProfile]_vars

\* what profile() of instance j would return now
ProfileOf(j) == png_profile(PNG_DEFAULT_PROFILE, driver[j], <<>>)

\* C27: a profile(tile), write or for_web call on one PNG instance leaves
\* what profile() and empty(tile) of the other instance return unchanged.
C27_CallsLeaveOtherInstancesUnchanged ==
    [][\A j \in Instances :
          last'.instance # j =>
              /\ ProfileOf(j)' = ProfileOf(j)
              /\ \A t \in Tiles(1) : png_empty(driver[j], t)' = png_empty(driver[j], t)]_vars

\* C28: a write of a raster driver whose data is empty (every pixel masked
\* or equal to the driver's nodata value) creates no directory and writes
\* no file.
C28_EmptyRasterWriteIsANoOp ==
    [][(/\ last'.op = "write"
        /\ driver.kind \in {"PNG", "PNG_hillshade"}
        /\ last'.exc = NoException
        /\ ~NonEmpty(driver, last'.data))
          => (files' = files /\ dirs' = dirs /\ last'.trace = <<>>)]_vars

(***************************************************************************)
(* Claims on the responses of the tile server                              *)
(***************************************************************************)
\* the request got as far as for_web, and for_web returned
Converted ==
    /\ request.state = "answered"
    /\ request.mp_name \in ProcessNames
    /\ WebTileIsValid(request.tile)
    /\ request.raw = NoException
    /\ for_web(driver, request.data).exc = NoException

\* C29: when for_web returned an image container the response is the image
\* with its MIME type; when it returned a sequence the response is JSON and
\* its body is exactly that sequence, also when the raw output was a
\* generator.
C29_ResponseBodyIsWhatForWebReturned ==
    Converted =>
        LET web == for_web(driver, request.data)
        IN  /\ Succeeded
            /\ request.response.Content_Type = web.mime_type
            /\ IF web.out_data = "MemoryFile"
               THEN request.response.body = "image"
               ELSE request.response.body = web.items

(***************************************************************************)
(* Further claims on get_best_zoom_level                                   *)
(***************************************************************************)
\* C31: every call of get_best_zoom_level that returns, returns an integer
\* zoom; when no zoom of 0..39 has a pixel size at most the average
\* resolution, the call does not return None.
C31_EveryReturnIsAnIntegerZoom ==
    scan.state = "returned" => scan.result.type = "int"

(***************************************************************************)
(* A further claim on racing write_output_metadata calls                   *)
(***************************************************************************)
\* process p makes its read_json in this step
Reads(p) == procs[p].pc = "start" /\ procs'[p].pc # "start"

\* C32: while metadata.json is open for writing and its record not yet
\* dumped, a process calling write_output_metadata does not take the record
\* for absent and does not open the file for writing again; the record
\* persisted in the end is the complete record of one of the writers.
C32_PartialRecordIsNotTakenForAbsent ==
    [][/\ \A p \in Procs :
            (metadata.state = "partial" /\ Reads(p))
                => procs'[p].pc # "FileNotFoundError"
       /\ \A p \in Procs :
            (metadata.state = "partial" /\ procs[p].pc = "FileNotFoundError")
                => procs'[p].pc # "opened"
       /\ metadata'.state = "present" =>
            \E p \in Procs :
                /\ procs'[p].pc = "written"
                /\ metadata' = write_json(params_to_dump(procs[p].params))]_vars

(***************************************************************************)
(* InputTile of raster_file.py: the band cache                             *)
(***************************************************************************)
\* self.raster_file.profile["count"]
RasterCount == 2

\* generators a caller of read may hold without having used them up
MaxGenerators == 2

\* the indexes argument: None, one index, or a list of indexes
RasterIndexes ==
    {[t |-> "None"], [t |-> "int", n |-> 1], [t |-> "int", n |-> 2],
     [t |-> "list", items |-> <<1, 2>>], [t |-> "list", items |-> <<2>>]}

\* the interpreter: a generator has the method next in Python 2 and not in
\* Python 3; what read_raster_window returns may have it in either
Builds ==
    {[python |-> 2, window_next |-> TRUE], [python |-> 3, window_next |-> TRUE],
     [python |-> 3, window_next |-> FALSE]}

\* _get_band_indexes(indexes)
_get_band_indexes(indexes) ==
    CASE indexes.t = "list" -> indexes.items
      [] indexes.t = "int" -> <<indexes.n>>
      [] OTHER -> [i \in 1..RasterCount |-> i]

\* a band as read from the file or taken from the cache
BandOf(self, band_index) ==
    [band |-> band_index, all_masked |-> band_index \in self.empty_bands]

\* one step of the generator _bands_from_cache at position gen.pos of its
\* indexes: the cached band, or the band read by
\* read_raster_window(...).next() and put into the cache
step(self, gen) ==
    IF gen.pos > Len(gen.indexes)
    THEN [self |-> self, exc |-> "StopIteration"]
    ELSE LET band_index == gen.indexes[gen.pos]
         IN  IF band_index \in self._np_band_cache
             THEN [self |-> self, exc |-> NoException,
                   value |-> BandOf(self, band_index)]
             ELSE IF ~self.build.window_next
             THEN [self |-> self, exc |-> "AttributeError"]
             ELSE [self |-> [self EXCEPT
                               !.reads[band_index] = @ + 1,
                               !._np_band_cache = @ \cup {band_index}],
                   exc |-> NoException,
                   value |-> BandOf(self, band_index)]

\* InputTile.read(indexes): for one index the generator's method next is
\* called, else the generator is returned as it is
raster_read(self, indexes) ==
    LET band_indexes == _get_band_indexes(indexes)
        gen == [indexes |-> band_indexes, pos |-> 1]
    IN  IF Len(band_indexes) = 1
        THEN IF self.build.python = 3
             THEN [self |-> self, exc |-> "AttributeError"]
             ELSE step(self, gen)
        ELSE [self |-> [self EXCEPT !.generators = Append(@, gen)],
              exc |-> NoException, value |-> [generator |-> gen]]

\* the loop of is_empty over _bands_from_cache(band_indexes), which ends at
\* the first band with an unmasked pixel
RECURSIVE all_bands_empty(_, _)
all_bands_empty(self, gen) ==
    LET r == step(self, gen)
    IN  IF r.exc = "StopIteration"
        THEN [self |-> self, exc |-> NoException, value |-> TRUE]
        ELSE IF r.exc # NoException
        THEN [self |-> self, exc |-> r.exc]
        ELSE IF ~r.value.all_masked
        THEN [self |-> r.self, exc |-> NoException, value |-> FALSE]
        ELSE all_bands_empty(r.self, [gen EXCEPT !.pos = @ + 1])

\* InputTile.is_empty(indexes)
raster_is_empty(self, indexes) ==
    IF ~self.intersects
    THEN [self |-> self, exc |-> NoException, value |-> TRUE]
    ELSE all_bands_empty(self, [indexes |-> _get_band_indexes(indexes), pos |-> 1])

\* InputTile.__init__ over a file with RasterCount bands, some of them
\* without a valid pixel, whose bounding box the tile intersects or not
InitRaster ==
    /\ \E build \in Builds, intersects \in BOOLEAN, empty_bands \in SUBSET (1..RasterCount) :
          input_tile = [state |-> "raster_file", build |-> build,
                        intersects |-> intersects, empty_bands |-> empty_bands,
                        _np_band_cache |-> {},
                        reads |-> [i \in 1..RasterCount |-> 0],
                        generators |-> <<>>]
    /\ last = [op |-> "none"]
    /\ driver = [kind |-> "none"]
    /\ files = [x \in {} |-> 0]
    /\ dirs = {}
    /\ workers = <<>>
    /\ request = [state |-> "none"]
    /\ scan = [state |-> "none"]
    /\ PNG_DEFAULT_PROFILE = DefaultProfile
    /\ IdleMeta

RasterFrame ==
    UNCHANGED <<metaVars, procs, driver, files, dirs, workers, request, scan,
                PNG_DEFAULT_PROFILE>>

\* what a call leaves: the InputTile after it and its result in last
RasterCall(op, band_indexes, r) ==
    /\ input_tile' = r.self
    /\ last' = [op |-> op, band_indexes |-> band_indexes,
                before |-> input_tile, out |-> [r EXCEPT !.self = 0]]

RasterRead ==
    /\ \E indexes \in RasterIndexes :
          /\ Len(_get_band_indexes(indexes)) > 1
                => Len(input_tile.generators) < MaxGenerators
          /\ \E r \in {raster_read(input_tile, indexes)} :
                RasterCall("read", _get_band_indexes(indexes), r)
    /\ RasterFrame

RasterIsEmpty ==
    /\ \E indexes \in RasterIndexes :
          \E r \in {raster_is_empty(input_tile, indexes)} :
              RasterCall("is_empty", _get_band_indexes(indexes), r)
    /\ RasterFrame

\* the caller of read takes the next band out of a generator it was given
RasterNext ==
    /\ \E g \in DOMAIN input_tile.generators :
          LET gen == input_tile.generators[g]
              others == [i \in 1..(Len(input_tile.generators) - 1) |->
                            input_tile.generators[IF i < g THEN i ELSE i + 1]]
          IN  \E r \in {step(input_tile, gen)} :
                RasterCall("next", <<>>,
                       [r EXCEPT !.self.generators =
                           IF r.exc = NoException /\ gen.pos < Len(gen.indexes)
                           THEN [@ EXCEPT ![g].pos = gen.pos + 1]
                           ELSE others])
    /\ RasterFrame

NextRaster == RasterRead \/ RasterIsEmpty \/ RasterNext

SpecRaster == InitRaster /\ [][NextRaster]_vars

\* C33: no band index is read from the source file more than once; a
\* read of one band that is in the cache returns that band; is_empty
\* of a tile that does not intersect the file's bounding box returns True
\* and reads no band.
C33_BandsAreReadOnceAndThenServedFromTheCache ==
    /\ \A i \in 1..RasterCount : input_tile.reads[i] <= 1
    /\ (/\ last.op = "read"
        /\ Len(last.band_indexes) = 1
        /\ last.band_indexes[1] \in last.before._np_band_cache)
          => (/\ last.out.exc = NoException
              /\ last.out.value.band = last.band_indexes[1]
              /\ input_tile.reads = last.before.reads)
    /\ (last.op = "is_empty" /\ ~input_tile.intersects)
          => (/\ last.out.exc = NoException
              /\ last.out.value = TRUE
              /\ input_tile.reads = last.before.reads)

====
